---- MODULE Spec2Model ----
(***************************************************************************)
(* Tempo Strike: the gameplay core.                                        *)
(*   - generateChart (src/constants.ts)                                    *)
(*   - the GameScene frame callback: spawn, miss rule, hit detection       *)
(*     (src/components/GameScene.tsx)                                      *)
(*   - the App handlers: handleNoteHit, handleNoteMiss, endGame,           *)
(*     startGame (src/unnamed/part_003)                                    *)
(*                                                                         *)
(* Units.  Song time is counted in quarter beats (BEAT_TIME = 4 units,     *)
(* one unit = 3/28 s).  Travel-axis positions are multiplied by ZS = 560,  *)
(* so that  z * ZS = -(note.time - time) * (2*noteSpeed) * 30  and every   *)
(* threshold of the frame callback is an integer.  Health is counted in    *)
(* hundredths, xp in fifths, perk multipliers in hundredths, difficulty    *)
(* score multipliers in tenths, hand coordinates and velocities in tenths. *)
(* Arithmetic is exact (no floating-point rounding error is modelled).     *)
(***************************************************************************)
EXTENDS Integers, Sequences, FiniteSets, TLC

(***************************************************************************)
(* Bounds of the model                                                     *)
(***************************************************************************)
\* generateChart loops "for (i = 4; i < 300; i += 1)": the model stops at LastBeat
LastBeat == 5
\* length of the (cyclic) stream of Math.random() outcomes
StreamLen == 3
\* the song's duration, in quarter beats (audio.ended from there on)
SongLength == 22
\* play sessions started (startGame calls) in one run
MaxSessions == 1

(***************************************************************************)
(* Program constants                                                       *)
(***************************************************************************)
ZS == 560
SPAWN_Z == -30
PLAYER_Z == 0
MISS_Z == 5
BEAT_TIME == 4
FirstBeat == 4
GoldEvery == 50

Difficulties == {"EASY", "MEDIUM", "HARD", "IMPOSSIBLE"}

\* speed doubled, healthDrain/healthGain in hundredths, scoreMultiplier in tenths
DIFFICULTY_CONFIG ==
  [d \in Difficulties |->
     CASE d = "EASY"       -> [speed2 |-> 20, healthDrain |-> 800,  healthGain |-> 600, scoreMultiplier |-> 8]
       [] d = "MEDIUM"     -> [speed2 |-> 28, healthDrain |-> 1200, healthGain |-> 400, scoreMultiplier |-> 10]
       [] d = "HARD"       -> [speed2 |-> 36, healthDrain |-> 1800, healthGain |-> 300, scoreMultiplier |-> 15]
       [] d = "IMPOSSIBLE" -> [speed2 |-> 76, healthDrain |-> 5100, healthGain |-> 20,  scoreMultiplier |-> 80]]

\* skipRate and doubleRate of generateChart, in hundredths
ChartRates ==
  [d \in Difficulties |->
     CASE d = "EASY"       -> [skipRate |-> 50, doubleRate |-> 5]
       [] d = "MEDIUM"     -> [skipRate |-> 20, doubleRate |-> 15]
       [] d = "HARD"       -> [skipRate |-> 5,  doubleRate |-> 30]
       [] d = "IMPOSSIBLE" -> [skipRate |-> 0,  doubleRate |-> 90]]

\* perks in hundredths
SABER_CATALOG ==
  << [id |-> "default",        scoreMult |-> 100, coinMult |-> 100, hitWindow |-> 100],
     [id |-> "pixel",          scoreMult |-> 110, coinMult |-> 100, hitWindow |-> 100],
     [id |-> "rapier",         scoreMult |-> 130, coinMult |-> 100, hitWindow |-> 80],
     [id |-> "midas",          scoreMult |-> 100, coinMult |-> 150, hitWindow |-> 100],
     [id |-> "broadsword",     scoreMult |-> 100, coinMult |-> 80,  hitWindow |-> 140],
     [id |-> "viper",          scoreMult |-> 135, coinMult |-> 100, hitWindow |-> 85],
     [id |-> "skeleton",       scoreMult |-> 110, coinMult |-> 130, hitWindow |-> 110],
     [id |-> "plasma",         scoreMult |-> 125, coinMult |-> 125, hitWindow |-> 110],
     [id |-> "bass",           scoreMult |-> 90,  coinMult |-> 110, hitWindow |-> 130],
     [id |-> "glitch",         scoreMult |-> 140, coinMult |-> 110, hitWindow |-> 90],
     [id |-> "katana",         scoreMult |-> 160, coinMult |-> 110, hitWindow |-> 95],
     [id |-> "crystal",        scoreMult |-> 130, coinMult |-> 140, hitWindow |-> 100],
     [id |-> "scythe",         scoreMult |-> 150, coinMult |-> 130, hitWindow |-> 100],
     [id |-> "nature",         scoreMult |-> 120, coinMult |-> 160, hitWindow |-> 120],
     [id |-> "mecha",          scoreMult |-> 150, coinMult |-> 100, hitWindow |-> 130],
     [id |-> "storm",          scoreMult |-> 160, coinMult |-> 120, hitWindow |-> 100],
     [id |-> "inferno",        scoreMult |-> 170, coinMult |-> 100, hitWindow |-> 110],
     [id |-> "void",           scoreMult |-> 180, coinMult |-> 110, hitWindow |-> 90],
     [id |-> "celestial",      scoreMult |-> 200, coinMult |-> 150, hitWindow |-> 110],
     [id |-> "neon",           scoreMult |-> 220, coinMult |-> 200, hitWindow |-> 120],
     [id |-> "ultimate_eudin", scoreMult |-> 300, coinMult |-> 300, hitWindow |-> 600] >>

\* lane and layer coordinates in tenths
LANE_X_POSITIONS == << -12, -4, 4, 12 >>
LAYER_Y_POSITIONS == << 8, 16, 24 >>

(***************************************************************************)
(* generateChart                                                           *)
(***************************************************************************)
\* the outcomes of Math.random() the model draws from, in hundredths
RandVals == {2, 95}
RandomStreams == [1..StreamLen -> RandVals]

\* the k-th call of Math.random() (k counted from 0)
Random(rnd, k) == rnd[(k % StreamLen) + 1]

NoTime == -1

Note(id, time, lineIndex, lineLayer, type, cutDirection, isGoldStar) ==
  [id |-> id, time |-> time, lineIndex |-> lineIndex, lineLayer |-> lineLayer,
   type |-> type, cutDirection |-> cutDirection, isGoldStar |-> isGoldStar,
   hit |-> FALSE, missed |-> FALSE, hitTime |-> NoTime]

\* Math.floor(Math.random() * n)
RandomIndex(r, n) == (r * n) \div 100

\* Math.random() > 0.5 ? 'left' : 'right'
RandomHand(r) == IF r > 50 THEN "left" ELSE "right"

\* The IMPOSSIBLE-only sub-beat notes of beat i; g is the generator's running
\* state [k: Math.random() calls made, idCount, generatedNoteCount, notes].
SubBeat1(g, i, rnd) ==
  IF Random(rnd, g.k) < 90
    THEN [g EXCEPT !.k = g.k + 4, !.idCount = g.idCount + 1,
            !.notes = Append(g.notes,
               Note(<<"note-sub-1", g.idCount>>, i * BEAT_TIME + 2,
                    RandomIndex(Random(rnd, g.k + 1), 4),
                    RandomIndex(Random(rnd, g.k + 2), 3),
                    RandomHand(Random(rnd, g.k + 3)), "ANY", FALSE))]
    ELSE [g EXCEPT !.k = g.k + 1]

SubBeat2(g, i, rnd) ==
  IF Random(rnd, g.k) < 40
    THEN [g EXCEPT !.k = g.k + 3, !.idCount = g.idCount + 1,
            !.notes = Append(g.notes,
               Note(<<"note-sub-2", g.idCount>>, i * BEAT_TIME + 1,
                    RandomIndex(Random(rnd, g.k + 1), 4),
                    RandomIndex(Random(rnd, g.k + 2), 3),
                    "left", "ANY", FALSE))]
    ELSE [g EXCEPT !.k = g.k + 1]

SubBeat3(g, i, rnd) ==
  IF Random(rnd, g.k) < 40
    THEN [g EXCEPT !.k = g.k + 3, !.idCount = g.idCount + 1,
            !.notes = Append(g.notes,
               Note(<<"note-sub-3", g.idCount>>, i * BEAT_TIME + 3,
                    RandomIndex(Random(rnd, g.k + 1), 4),
                    RandomIndex(Random(rnd, g.k + 2), 3),
                    "right", "ANY", FALSE))]
    ELSE [g EXCEPT !.k = g.k + 1]

SubBeats(g, d, i, rnd) ==
  IF d = "IMPOSSIBLE" THEN SubBeat3(SubBeat2(SubBeat1(g, i, rnd), i, rnd), i, rnd) ELSE g

\* the gold star pushed on every GoldEvery-th counted beat
GoldNote(g, i, rnd) ==
  [g EXCEPT !.k = g.k + 1, !.idCount = g.idCount + 1,
     !.notes = Append(g.notes,
        Note(<<"gold", g.idCount>>, i * BEAT_TIME,
             IF Random(rnd, g.k) > 50 THEN 1 ELSE 2, 1, "left", "ANY", TRUE))]

\* the main-beat note(s) of a counted beat that is no gold star
MainBeat(g, d, i, rnd) ==
  LET time == i * BEAT_TIME
      phase == (i \div 16) % 4
      isLeft == (i % 2 = 0)
  IN IF d = "EASY"
       THEN IF i % 2 # 0 THEN g
            ELSE [g EXCEPT !.idCount = g.idCount + 1,
                    !.notes = Append(g.notes,
                       Note(<<"note", g.idCount>>, time,
                            IF i % 4 = 0 THEN 1 ELSE 2, 0,
                            IF i % 4 = 0 THEN "left" ELSE "right", "ANY", FALSE))]
     ELSE IF phase = 0 \/ phase = 2
       THEN [g EXCEPT !.k = g.k + 1, !.idCount = g.idCount + 1,
               !.notes = Append(g.notes,
                  Note(<<"note", g.idCount>>, time, IF isLeft THEN 1 ELSE 2, 0,
                       IF isLeft THEN "left" ELSE "right",
                       IF Random(rnd, g.k) > 50 THEN "DOWN" ELSE "ANY", FALSE))]
     ELSE IF phase = 1
       THEN IF d = "HARD" \/ d = "IMPOSSIBLE" \/ i % 2 = 0
              THEN [g EXCEPT !.idCount = g.idCount + 1,
                      !.notes = Append(g.notes,
                         Note(<<"note", g.idCount>>, time, IF isLeft THEN 0 ELSE 3, 0,
                              IF isLeft THEN "left" ELSE "right", "DOWN", FALSE))]
              ELSE g
     ELSE IF Random(rnd, g.k) < ChartRates[d].doubleRate
       THEN [g EXCEPT !.k = g.k + 1, !.idCount = g.idCount + 2,
               !.notes = g.notes \o
                  << Note(<<"note", g.idCount>>, time, 1, 1, "left", "LEFT", FALSE),
                     Note(<<"note", g.idCount + 1>>, time, 2, 1, "right", "RIGHT", FALSE) >>]
       ELSE LET crossLeft == Random(rnd, g.k + 1) > 50
            IN [g EXCEPT !.k = g.k + 3, !.idCount = g.idCount + 1,
                  !.notes = Append(g.notes,
                     Note(<<"note", g.idCount>>, time, IF crossLeft THEN 2 ELSE 1,
                          IF Random(rnd, g.k + 2) > 60 THEN 1 ELSE 0,
                          IF crossLeft THEN "left" ELSE "right", "ANY", FALSE))]

\* the iteration whose gold star branch lacks its "continue"
BeatGoldFallsThrough(g, d, i, rnd) ==
  IF Random(rnd, g.k) < ChartRates[d].skipRate
    THEN [g EXCEPT !.k = g.k + 1]
    ELSE LET s == SubBeats([g EXCEPT !.k = g.k + 1], d, i, rnd)
             c == [s EXCEPT !.generatedNoteCount = s.generatedNoteCount + 1]
         IN IF c.generatedNoteCount % GoldEvery = 0
              THEN MainBeat(GoldNote(c, i, rnd), d, i, rnd)
              ELSE MainBeat(c, d, i, rnd)

\* one iteration of the beat loop
Beat(g, d, i, rnd) ==
  IF Random(rnd, g.k) < ChartRates[d].skipRate
    THEN [g EXCEPT !.k = g.k + 1]
    ELSE LET s == SubBeats([g EXCEPT !.k = g.k + 1], d, i, rnd)
             c == [s EXCEPT !.generatedNoteCount = s.generatedNoteCount + 1]
         IN IF c.generatedNoteCount % GoldEvery = 0
              THEN GoldNote(c, i, rnd)
              ELSE MainBeat(c, d, i, rnd)

\* for (let i = 4; i < last; i++); the test on g.k has TLC evaluate the state of
\* one iteration before it enters the next
RECURSIVE BeatLoopTo(_, _, _, _, _)
BeatLoopTo(g, d, i, rnd, last) ==
  IF i < last /\ g.k >= 0 THEN BeatLoopTo(Beat(g, d, i, rnd), d, i + 1, rnd, last) ELSE g

BeatLoop(g, d, i, rnd) == BeatLoopTo(g, d, i, rnd, LastBeat)

\* the notes in emission order, before the final sort
EmittedNotes(d, rnd) ==
  BeatLoop([k |-> 0, idCount |-> 0, generatedNoteCount |-> 0, notes |-> << >>],
           d, FirstBeat, rnd).notes

\* notes.sort((a, b) => a.time - b.time): a stable sort by time
RECURSIVE InsertByTime(_, _)
InsertByTime(sorted, n) ==
  IF sorted = << >> THEN << n >>
  ELSE IF sorted[Len(sorted)].time <= n.time THEN Append(sorted, n)
  ELSE Append(InsertByTime(SubSeq(sorted, 1, Len(sorted) - 1), n), sorted[Len(sorted)])

\* notes[lo..hi] inserted one by one, in their order, into the sorted acc; the range
\* is halved and the first half's result a bound as a value, which keeps TLC's
\* evaluation shallow
RECURSIVE SortFrom(_, _, _, _)
SortFrom(notes, lo, hi, acc) ==
  IF lo > hi THEN acc
  ELSE IF lo = hi THEN InsertByTime(acc, notes[lo])
  ELSE CHOOSE r \in { SortFrom(notes, (lo + hi) \div 2 + 1, hi, a) :
                        a \in { SortFrom(notes, lo, (lo + hi) \div 2, acc) } } : TRUE

\* the chart returned as it was emitted, the final sort left out
SortByTimeOmitted(notes) == notes

SortByTime(notes) == SortFrom(notes, 1, Len(notes), << >>)

generateChart(d, rnd) == SortByTime(EmittedNotes(d, rnd))

\* generateChart with its beat loop running up to beat last
generateChartTo(d, rnd, last) ==
  SortByTime(BeatLoopTo([k |-> 0, idCount |-> 0, generatedNoteCount |-> 0, notes |-> << >>],
                        d, FirstBeat, rnd, last).notes)

\* the accumulator of the beat loop before its first iteration
LoopStart == [k |-> 0, idCount |-> 0, generatedNoteCount |-> 0, notes |-> << >>]

\* no call of generateChart in progress
NoLoop == [running |-> FALSE]

(***************************************************************************)
(* State                                                                   *)
(***************************************************************************)
VARIABLES
  gameStatus,        \* App: GameStatus
  score,             \* App
  combo,             \* App
  multiplier,        \* App
  health,            \* App, in hundredths
  difficulty,        \* App
  coins,             \* App
  xp,                \* App, in fifths
  equippedSaberId,   \* App
  activeChart,       \* App: the chart of the session (an index into charts, 0 = [])
  endGameTimers,     \* pending setTimeout(() => endGame(false), 0) callbacks
  charts,            \* the note objects: charts[c][j] is note j of the c-th generated chart
  notesState,        \* GameScene: useState copy of the chart (an index into charts)
  notesStatePending, \* GameScene: setNotesState([...chart]) scheduled, not yet rendered
  activeNotesRef,    \* GameScene: the notes in flight, as <<chart, index>> references
  nextNoteIndexRef,  \* GameScene
  audioTime,         \* audioRef.current.currentTime, in quarter beats
  audioPaused,       \* audioRef.current.paused
  audioDuration,     \* the length of the song loaded in audioRef, in quarter beats
  sessions,          \* history: startGame calls so far
  frameRan,          \* history: the step just taken was a frame callback
  callbacks,         \* history: the callbacks the step just taken issued
  failCalls,         \* history: endGame(false) calls since the last startGame
  noteCalls,         \* history: noteCalls[c][j] counts the callbacks issued for note j of chart c
  streak,            \* history: the non-penalty hits in a row since combo 0 and multiplier 1
  play,              \* the callbacks the scene will deliver (handler-level specification)
  received,          \* history: callbacks delivered (handler-level specification)
  handPositionsRef,  \* useMediaPipe: what the detector last wrote for the two hands
  detection,         \* history: the processResults calls that wrote each position and velocity
  chartLoop          \* generateChart: the beat loop of a call in progress

appVars == << score, combo, multiplier, health, coins, xp, endGameTimers >>
sceneVars == << charts, notesState, notesStatePending, activeNotesRef, nextNoteIndexRef >>
vars == << gameStatus, score, combo, multiplier, health, difficulty, coins, xp,
           equippedSaberId, activeChart, endGameTimers, charts, notesState,
           notesStatePending, activeNotesRef, nextNoteIndexRef, audioTime,
           audioPaused, audioDuration, sessions, frameRan, callbacks, failCalls,
           noteCalls, streak, play, received, handPositionsRef, detection,
           chartLoop >>
driverVars == << streak, play, received >>
detectorVars == << handPositionsRef, detection >>
\* what the handlers of the App and of the scene leave alone
fixedVars == << audioDuration, detectorVars, chartLoop >>

\* no callback script: the frame callback computes the callbacks
NoPlay == [main |-> "NONE", odd |-> 0]

Tiers == {"GOLD_STAR", "PERFECT", "GREAT", "GOOD", "OK", "BAD", "WRONG_SABER"}

\* a hand the detector does not see (position null)
Null == [null |-> TRUE]

Min(a, b) == IF a < b THEN a ELSE b
Max(a, b) == IF a > b THEN a ELSE b

(***************************************************************************)
(* App: derived values                                                     *)
(***************************************************************************)
\* SABER_CATALOG.find(s => s.id === equippedSaberId) || SABER_CATALOG[0]
equippedItem(id) ==
  IF \E j \in 1..Len(SABER_CATALOG) : SABER_CATALOG[j].id = id
    THEN SABER_CATALOG[CHOOSE j \in 1..Len(SABER_CATALOG) : SABER_CATALOG[j].id = id]
    ELSE SABER_CATALOG[1]

RECURSIVE SqrtFrom(_, _)
SqrtFrom(k, v) == IF (k + 1) * (k + 1) <= v THEN SqrtFrom(k + 1, v) ELSE k

\* Math.floor(Math.sqrt(xp / 100)) + 1, xp given in fifths
level(x) == SqrtFrom(0, x \div 500) + 1

\* 2 * Math.min((level - 1) * 0.5, 8)
levelSpeedBonus2(x) == Min(level(x) - 1, 16)

\* 2 * (diffConfig.speed + levelSpeedBonus)
activeNoteSpeed2(d, x) == DIFFICULTY_CONFIG[d].speed2 + levelSpeedBonus2(x)

(***************************************************************************)
(* App: handleNoteHit, handleNoteMiss                                      *)
(***************************************************************************)
\* Math.round(n / d) for n >= 0
Round(n, d) == (2 * n + d) \div (2 * d)

BasePoints(tier) ==
  CASE tier = "PERFECT" -> 150 [] tier = "GREAT" -> 100 [] tier = "GOOD" -> 70
    [] tier = "OK" -> 40 [] tier = "BAD" -> 10 [] tier = "WRONG_SABER" -> 0
    [] tier = "GOLD_STAR" -> 1000

BaseCoins(tier) ==
  CASE tier = "PERFECT" -> 15 [] tier = "GREAT" -> 10 [] tier = "GOOD" -> 5
    [] tier = "OK" -> 2 [] tier = "BAD" -> 1 [] tier = "WRONG_SABER" -> 0
    [] tier = "GOLD_STAR" -> 150

\* healthBonus in hundredths
HealthBonus(tier, d) ==
  LET gain == DIFFICULTY_CONFIG[d].healthGain
  IN CASE tier = "PERFECT" -> gain [] tier = "GREAT" -> (gain * 8) \div 10
       [] tier = "GOOD" -> (gain * 5) \div 10 [] tier = "OK" -> (gain * 2) \div 10
       [] tier = "BAD" -> 0 [] tier = "WRONG_SABER" -> -500
       [] tier = "GOLD_STAR" -> 5000

\* points after perks and difficulty (only if points > 0)
HitPoints(tier, d, item) ==
  IF BasePoints(tier) > 0
    THEN Round(BasePoints(tier) * item.scoreMult * DIFFICULTY_CONFIG[d].scoreMultiplier, 1000)
    ELSE BasePoints(tier)

HitCoins(tier, d, item) ==
  IF BasePoints(tier) > 0
    THEN Round(BaseCoins(tier) * item.coinMult * DIFFICULTY_CONFIG[d].scoreMultiplier, 1000)
    ELSE BaseCoins(tier)

\* the thresholds met at the round combo itself
ComboMultiplierAtRound(newCombo) ==
  IF newCombo >= 30 THEN 8 ELSE IF newCombo >= 20 THEN 4 ELSE IF newCombo >= 10 THEN 2 ELSE 1

\* the multiplier set by the setCombo updater of a non-penalty hit
ComboMultiplier(newCombo) ==
  IF newCombo > 30 THEN 8 ELSE IF newCombo > 20 THEN 4 ELSE IF newCombo > 10 THEN 2 ELSE 1

IsPenalty(tier) == tier = "BAD" \/ tier = "WRONG_SABER"

\* the penalty taken off the combo without the floor at 0
HitComboUnfloored(c, tier) == IF IsPenalty(tier) THEN c - 5 ELSE c + 1

HitCombo(c, tier) == IF IsPenalty(tier) THEN Max(0, c - 5) ELSE c + 1

\* a penalty that leaves the multiplier as it is
HitMultiplierKept(m, c, tier) ==
  IF IsPenalty(tier) THEN m ELSE ComboMultiplier(c + 1)

HitMultiplier(m, c, tier) ==
  IF IsPenalty(tier) THEN Max(1, m \div 2) ELSE ComboMultiplier(c + 1)

\* the health update without its upper clamp
HitHealthUncapped(h, tier, d) == Max(0, h + HealthBonus(tier, d))

\* setHealth(h => Math.min(100, Math.max(0, h + healthBonus)))
HitHealth(h, tier, d) == Min(10000, Max(0, h + HealthBonus(tier, d)))

\* a handler whose score updater reads the multiplier of the state it runs on
handleNoteHitRunning(a, tier, m, d, item) ==
  [a EXCEPT !.combo = HitCombo(a.combo, tier),
            !.multiplier = HitMultiplier(a.multiplier, a.combo, tier),
            !.score = a.score + HitPoints(tier, d, item) * a.multiplier,
            !.health = HitHealth(a.health, tier, d),
            !.coins = a.coins + HitCoins(tier, d, item),
            !.xp = a.xp + HitPoints(tier, d, item)]

\* a is the App state the updaters run on, m the multiplier handleNoteHit
\* captured at the last render
handleNoteHit(a, tier, m, d, item) ==
  [a EXCEPT !.combo = HitCombo(a.combo, tier),
            !.multiplier = HitMultiplier(a.multiplier, a.combo, tier),
            !.score = a.score + HitPoints(tier, d, item) * m,
            !.health = HitHealth(a.health, tier, d),
            !.coins = a.coins + HitCoins(tier, d, item),
            !.xp = a.xp + HitPoints(tier, d, item)]

\* the drain applied without the clamp at 0
MissHealthUnclamped(h, d) == h - DIFFICULTY_CONFIG[d].healthDrain

\* setHealth(h => ...) of handleNoteMiss: the new health
MissHealth(h, d) ==
  IF h - DIFFICULTY_CONFIG[d].healthDrain <= 0 THEN 0 ELSE h - DIFFICULTY_CONFIG[d].healthDrain

\* a miss that schedules no endGame(false)
MissTimersNone(h, d) == 0

\* ... and the endGame(false) timeouts it schedules
MissTimers(h, d) == IF h - DIFFICULTY_CONFIG[d].healthDrain <= 0 THEN 1 ELSE 0

handleNoteMiss(a, d) ==
  [a EXCEPT !.combo = 0,
            !.multiplier = 1,
            !.health = MissHealth(a.health, d),
            !.endGameTimers = a.endGameTimers + MissTimers(a.health, d)]

AppState ==
  [score |-> score, combo |-> combo, multiplier |-> multiplier, health |-> health,
   coins |-> coins, xp |-> xp, endGameTimers |-> endGameTimers]

SetApp(a) ==
  /\ score' = a.score
  /\ combo' = a.combo
  /\ multiplier' = a.multiplier
  /\ health' = a.health
  /\ coins' = a.coins
  /\ xp' = a.xp
  /\ endGameTimers' = a.endGameTimers

(***************************************************************************)
(* GameScene: the frame callback                                           *)
(***************************************************************************)
ZeroVelocity == [x |-> 0, y |-> 0, z |-> 0]

\* what the detector may have left in one hand's slot: position and velocity
HandSamples ==
  { [pos |-> Null, vel |-> ZeroVelocity],
    [pos |-> [x |-> -4, y |-> 8], vel |-> [x |-> 0, y |-> -30, z |-> 0]],
    [pos |-> [x |-> 4, y |-> 8], vel |-> ZeroVelocity] }

HandStates ==
  { [left |-> l.pos, right |-> r.pos, leftVelocity |-> l.vel, rightVelocity |-> r.vel] :
      l \in HandSamples, r \in HandSamples }

(***************************************************************************)
(* useMediaPipe: the detector                                              *)
(* Landmark x in fiftieths and y in seventieths of the frame; world x and  *)
(* y in tenths, world z in fiftieths; time stamps in milliseconds;         *)
(* velocities in tenths per second.                                        *)
(***************************************************************************)
\* worldX = (0.5 - x) * 5; worldY = (1 - y) * 3.5 - 1.75 + 0.8;
\* worldZ = -max(0, worldY * 0.2); Vector3(worldX, max(0.1, worldY), worldZ)
mapHandToWorld(x, y) ==
  [x |-> 25 - x, y |-> Max(1, (51 - y) \div 2), z |-> 0 - Max(0, (51 - y) \div 2)]

\* the ref as useRef constructs it
NoHands ==
  [left |-> Null, right |-> Null, lastLeft |-> Null, lastRight |-> Null,
   leftVelocity |-> ZeroVelocity, rightVelocity |-> ZeroVelocity, lastTimestamp |-> 0]

\* no processResults call yet: cycle 0 stands for the construction of the ref
NoDetection == [cycle |-> 0, left |-> 0, leftVelocity |-> 0, right |-> 0, rightVelocity |-> 0]

\* the result loop: the last landmark classified for the hand, mapped to the world
RECURSIVE NewHand(_, _, _)
NewHand(results, i, isRight) ==
  IF i = 0 THEN Null
  ELSE IF results[i].isRight = isRight THEN mapHandToWorld(results[i].tip.x, results[i].tip.y)
  ELSE NewHand(results, i - 1, isRight)

\* LERP = 0.6 keeps the coordinates on the grid
OnGrid(a, b) ==
  /\ ((b.x - a.x) * 6) % 10 = 0
  /\ ((b.y - a.y) * 6) % 10 = 0
  /\ ((b.z - a.z) * 6) % 10 = 0

\* v.lerpVectors(a, b, 0.6)
lerpVectors(a, b) ==
  [x |-> a.x + ((b.x - a.x) * 6) \div 10,
   y |-> a.y + ((b.y - a.y) * 6) \div 10,
   z |-> a.z + ((b.z - a.z) * 6) \div 10]

\* subVectors(a, b).divideScalar(deltaTime), deltaTime = ms / 1000
Velocity(a, b, ms) ==
  [x |-> ((a.x - b.x) * 1000) \div ms,
   y |-> ((a.y - b.y) * 1000) \div ms,
   z |-> ((a.z - b.z) * 200) \div ms]

\* the position written for a hand: smoothed towards the new one when the hand was seen
NewPosition(old, new) ==
  IF new # Null /\ old # Null THEN lerpVectors(old, new) ELSE new

\* deltaTime > 0.001
VelocityUpdated(old, new, ms) == new # Null /\ old # Null /\ ms > 1

NewVelocity(old, new, vel, ms) ==
  IF VelocityUpdated(old, new, ms) THEN Velocity(NewPosition(old, new), old, ms) ELSE vel

NewLast(old, new, last) ==
  IF new = Null THEN last ELSE IF old # Null THEN old ELSE new

DIRECTION_VECTORS ==
  [c \in {"UP", "DOWN", "LEFT", "RIGHT", "ANY"} |->
     CASE c = "UP" -> [x |-> 0, y |-> 1, z |-> 0]
       [] c = "DOWN" -> [x |-> 0, y |-> -1, z |-> 0]
       [] c = "LEFT" -> [x |-> -1, y |-> 0, z |-> 0]
       [] c = "RIGHT" -> [x |-> 1, y |-> 0, z |-> 0]
       [] c = "ANY" -> [x |-> 0, y |-> 0, z |-> 0]]

ChartNotes(c) == IF c = 0 THEN << >> ELSE charts[c]

\* timeDiff * noteSpeed, times ZS
Travel(note, time, speed2) == (note.time - time) * speed2 * 30

\* currentZ = PLAYER_Z - timeDiff * noteSpeed, times ZS
CurrentZ(note, time, speed2) == PLAYER_Z * ZS - Travel(note, time, speed2)

\* nextNote.time - spawnAheadTime <= time, spawnAheadTime = |SPAWN_Z - PLAYER_Z| / noteSpeed
SpawnDue(note, time, speed2) ==
  Travel(note, time, speed2) <= (IF SPAWN_Z > PLAYER_Z THEN SPAWN_Z - PLAYER_Z ELSE PLAYER_Z - SPAWN_Z) * ZS

\* the notes due from the start of the chart on
RECURSIVE DuePrefix(_, _, _, _)
DuePrefix(notes, j, time, speed2) ==
  IF j < Len(notes) /\ SpawnDue(notes[j + 1], time, speed2)
    THEN DuePrefix(notes, j + 1, time, speed2)
    ELSE j

\* a spawn loop that rescans the chart from its first note in every tick
SpawnUpToRescan(notes, next, time, speed2) == DuePrefix(notes, 0, time, speed2)

\* the spawn loop: the value of nextNoteIndexRef after it
RECURSIVE SpawnUpTo(_, _, _, _)
SpawnUpTo(notes, next, time, speed2) ==
  IF next < Len(notes) /\ SpawnDue(notes[next + 1], time, speed2)
    THEN SpawnUpTo(notes, next + 1, time, speed2)
    ELSE next

\* a miss plane at the player
PastMissPlaneAtPlayer(note, time, speed2) == CurrentZ(note, time, speed2) > PLAYER_Z * ZS

\* currentZ > MISS_Z
PastMissPlane(note, time, speed2) == CurrentZ(note, time, speed2) > MISS_Z * ZS

\* zWindow = 2.5 * hitWindow:  PLAYER_Z - zWindow < currentZ < PLAYER_Z + zWindow * 0.5
InHitWindow(note, time, speed2, item) ==
  /\ CurrentZ(note, time, speed2) > PLAYER_Z * ZS - 14 * item.hitWindow
  /\ CurrentZ(note, time, speed2) < PLAYER_Z * ZS + 7 * item.hitWindow

\* distXY squared, in hundredths
DistXY2(pos, note) ==
  (pos.x - LANE_X_POSITIONS[note.lineIndex + 1]) * (pos.x - LANE_X_POSITIONS[note.lineIndex + 1])
  + (pos.y - LAYER_Y_POSITIONS[note.lineLayer + 1]) * (pos.y - LAYER_Y_POSITIONS[note.lineLayer + 1])

\* hitRadius = 1.2 * hitWindow, squared, in millionths
HitRadius2(item) == 144 * item.hitWindow * item.hitWindow

\* the radius test that takes an unseen hand to be at the origin
InRadiusNullAtOrigin(pos, note, item) ==
  DistXY2(IF pos = Null THEN [x |-> 0, y |-> 0] ELSE pos, note) * 10000 < HitRadius2(item)

\* handPos && distXY < hitRadius
InRadius(pos, note, item) == pos # Null /\ DistXY2(pos, note) * 10000 < HitRadius2(item)

HandPos(h, type) == IF type = "left" THEN h.left ELSE h.right
HandVel(h, type) == IF type = "left" THEN h.leftVelocity ELSE h.rightVelocity
OtherHand(type) == IF type = "left" THEN "right" ELSE "left"

HitCorrect(note, h, item) == InRadius(HandPos(h, note.type), note, item)

\* the wrong-hand check looking at the note's own hand again
HitWrongOwnHand(note, h, item) ==
  ~HitCorrect(note, h, item) /\ InRadius(HandPos(h, note.type), note, item)

HitWrong(note, h, item) ==
  ~HitCorrect(note, h, item) /\ InRadius(HandPos(h, OtherHand(note.type)), note, item)

\* handVel.length() squared, in hundredths
Speed2(v) == v.x * v.x + v.y * v.y + v.z * v.z

\* the component of handVel along the required direction
Along(v, cut) ==
  v.x * DIRECTION_VECTORS[cut].x + v.y * DIRECTION_VECTORS[cut].y + v.z * DIRECTION_VECTORS[cut].z

\* angleScore > 0.5, angleScore < -0.2  (angleScore = 1.0 for ANY)
AngleAbove05(v, cut) == cut = "ANY" \/ (Along(v, cut) > 0 /\ 4 * Along(v, cut) * Along(v, cut) > Speed2(v))
AngleBelowM02(v, cut) == cut # "ANY" /\ Along(v, cut) < 0 /\ 25 * Along(v, cut) * Along(v, cut) > Speed2(v)

\* precision = max(0, 1 - distXY / hitRadius) > p/10
PrecisionAbove(pos, note, item, p) ==
  100 * DistXY2(pos, note) * 10000 < (10 - p) * (10 - p) * HitRadius2(item)

isUltimate(item) == item.id = "ultimate_eudin"

\* the tier computed from speed, angle and precision whatever the item
CorrectTierOfCut(note, h, item) ==
  LET pos == HandPos(h, note.type)
      vel == HandVel(h, note.type)
  IN IF Speed2(vel) < 9 THEN "BAD"
     ELSE IF AngleBelowM02(vel, note.cutDirection) THEN "BAD"
     ELSE IF PrecisionAbove(pos, note, item, 7) /\ Speed2(vel) > 400
             /\ AngleAbove05(vel, note.cutDirection) THEN "PERFECT"
     ELSE IF PrecisionAbove(pos, note, item, 5) /\ Speed2(vel) > 100 THEN "GREAT"
     ELSE IF PrecisionAbove(pos, note, item, 3) THEN "GOOD"
     ELSE "OK"

\* the tier computed with the angle score of the opposite direction
CorrectTierOpposite(note, h, item) ==
  LET pos == HandPos(h, note.type)
      vel == HandVel(h, note.type)
      back == [x |-> 0 - vel.x, y |-> 0 - vel.y, z |-> 0 - vel.z]
  IN IF isUltimate(item) THEN "PERFECT"
     ELSE IF Speed2(vel) < 9 THEN "BAD"
     ELSE IF AngleBelowM02(back, note.cutDirection) THEN "BAD"
     ELSE IF PrecisionAbove(pos, note, item, 7) /\ Speed2(vel) > 400
             /\ AngleAbove05(back, note.cutDirection) THEN "PERFECT"
     ELSE IF PrecisionAbove(pos, note, item, 5) /\ Speed2(vel) > 100 THEN "GREAT"
     ELSE IF PrecisionAbove(pos, note, item, 3) THEN "GOOD"
     ELSE "OK"

\* the tier of a normal note reached by the correct hand
CorrectTier(note, h, item) ==
  LET pos == HandPos(h, note.type)
      vel == HandVel(h, note.type)
  IN IF isUltimate(item) THEN "PERFECT"
     ELSE IF Speed2(vel) < 9 THEN "BAD"
     ELSE IF AngleBelowM02(vel, note.cutDirection) THEN "BAD"
     ELSE IF PrecisionAbove(pos, note, item, 7) /\ Speed2(vel) > 400
             /\ AngleAbove05(vel, note.cutDirection) THEN "PERFECT"
     ELSE IF PrecisionAbove(pos, note, item, 5) /\ Speed2(vel) > 100 THEN "GREAT"
     ELSE IF PrecisionAbove(pos, note, item, 3) THEN "GOOD"
     ELSE "OK"

\* the hit test whose gold-star branch looks at the hand of note.type only
HitTestGoldOwnHand(note, time, speed2, h, item) ==
  IF ~InHitWindow(note, time, speed2, item) THEN "none"
  ELSE IF note.isGoldStar
    THEN IF HitCorrect(note, h, item) THEN "GOLD_STAR" ELSE "none"
  ELSE IF HitCorrect(note, h, item) THEN CorrectTier(note, h, item)
  ELSE IF HitWrong(note, h, item) THEN "WRONG_SABER"
  ELSE "none"

\* the hit test that looks at the wrong hand first
HitTestWrongHandFirst(note, time, speed2, h, item) ==
  IF ~InHitWindow(note, time, speed2, item) THEN "none"
  ELSE IF note.isGoldStar
    THEN IF HitCorrect(note, h, item) \/ HitWrong(note, h, item) THEN "GOLD_STAR" ELSE "none"
  ELSE IF InRadius(HandPos(h, OtherHand(note.type)), note, item) THEN "WRONG_SABER"
  ELSE IF HitCorrect(note, h, item) THEN CorrectTier(note, h, item)
  ELSE "none"

\* the hit test of the collision loop: a tier (hit) or "none"
HitTest(note, time, speed2, h, item) ==
  IF ~InHitWindow(note, time, speed2, item) THEN "none"
  ELSE IF note.isGoldStar
    THEN IF HitCorrect(note, h, item) \/ HitWrong(note, h, item) THEN "GOLD_STAR" ELSE "none"
  ELSE IF HitCorrect(note, h, item) THEN CorrectTier(note, h, item)
  ELSE IF HitWrong(note, h, item) THEN "WRONG_SABER"
  ELSE "none"

\* the collision loop with the hit test placed before the miss rule
ResolutionHitTestFirst(note, time, speed2, h, item) ==
  IF note.hit \/ note.missed THEN "skip"
  ELSE IF HitTest(note, time, speed2, h, item) # "none" THEN HitTest(note, time, speed2, h, item)
  ELSE IF PastMissPlane(note, time, speed2) THEN "miss"
  ELSE "none"

\* What the collision loop does with one active note:
\* "skip" (already resolved), "miss", a tier (hit), or "none" (left in flight).
Resolution(note, time, speed2, h, item) ==
  IF note.hit \/ note.missed THEN "skip"
  ELSE IF PastMissPlane(note, time, speed2) THEN "miss"
  ELSE HitTest(note, time, speed2, h, item)

\* which hand was within the hit radius of the note ("both", "correct", "wrong", "none")
Reach(note, h, item) ==
  IF HitCorrect(note, h, item)
    THEN IF InRadius(HandPos(h, OtherHand(note.type)), note, item) THEN "both" ELSE "correct"
  ELSE IF HitWrong(note, h, item) THEN "wrong" ELSE "none"

\* the record of a callback the frame issued (history)
Call(cb, ref, tier, reach) == [cb |-> cb, note |-> ref, tier |-> tier, reach |-> reach]

\* activeNotesRef.current.splice(i, 1)
Splice(seq, i) == SubSeq(seq, 1, i - 1) \o SubSeq(seq, i + 1, Len(seq))

\* the collision loop whose miss branch lacks its "continue": a missed note goes on
\* to the hit test
CollideOneFallThrough(f, i, time, speed2, h, item, d, m) ==
  LET ref == f.active[i]
      note == f.charts[ref[1]][ref[2]]
      r == Resolution(note, time, speed2, h, item)
      t == HitTest(note, time, speed2, h, item)
      missed == [active |-> Splice(f.active, i),
                 charts |-> [f.charts EXCEPT ![ref[1]][ref[2]].missed = TRUE],
                 app |-> handleNoteMiss(f.app, d),
                 calls |-> Append(f.calls, Call("onNoteMiss", ref, "MISS", Reach(note, h, item)))]
      g == IF r = "miss" THEN missed ELSE f
  IN IF r = "skip" \/ (r = "none" /\ t = "none") THEN f
     ELSE IF t = "none" THEN g
     ELSE [active |-> IF i <= Len(g.active) THEN Splice(g.active, i) ELSE g.active,
           charts |-> [g.charts EXCEPT ![ref[1]][ref[2]].hit = TRUE,
                                       ![ref[1]][ref[2]].hitTime = time],
           app |-> handleNoteHit(g.app, t, m, d, item),
           calls |-> Append(g.calls, Call("onNoteHit", ref, t, Reach(note, h, item)))]

\* One iteration of the collision loop on activeNotesRef[i]; f is the running state
\* [active, charts, app, calls], m the multiplier captured by handleNoteHit.
CollideOne(f, i, time, speed2, h, item, d, m) ==
  LET ref == f.active[i]
      note == f.charts[ref[1]][ref[2]]
      r == Resolution(note, time, speed2, h, item)
  IN IF r = "skip" \/ r = "none" THEN f
     ELSE IF r = "miss"
       THEN [active |-> Splice(f.active, i),
             charts |-> [f.charts EXCEPT ![ref[1]][ref[2]].missed = TRUE],
             app |-> handleNoteMiss(f.app, d),
             calls |-> Append(f.calls, Call("onNoteMiss", ref, "MISS", Reach(note, h, item)))]
       ELSE [active |-> Splice(f.active, i),
             charts |-> [f.charts EXCEPT ![ref[1]][ref[2]].hit = TRUE,
                                         ![ref[1]][ref[2]].hitTime = time],
             app |-> handleNoteHit(f.app, r, m, d, item),
             calls |-> Append(f.calls, Call("onNoteHit", ref, r, Reach(note, h, item)))]

\* for (let i = activeNotesRef.current.length - 1; i >= 0; i--); g is the state one
\* iteration left, bound as a value so that TLC evaluates it once
RECURSIVE CollideFrom(_, _, _, _, _, _, _, _)
CollideFrom(f, i, time, speed2, h, item, d, m) ==
  IF i < 1 THEN f
  ELSE CHOOSE r \in { CollideFrom(g, i - 1, time, speed2, h, item, d, m) :
                        g \in { CollideOne(f, i, time, speed2, h, item, d, m) } } : TRUE

\* the notes pushed by the spawn loop
Spawned(c, from, to) == [j \in 1..(to - from) |-> << c, from + j >>]

\* the frame callback past its guards: spawn, then collide
FrameResult(hands) ==
  LET time == audioTime
      speed2 == activeNoteSpeed2(difficulty, xp)
      next == SpawnUpTo(ChartNotes(notesState), nextNoteIndexRef, time, speed2)
      active == activeNotesRef \o Spawned(notesState, nextNoteIndexRef, next)
      f == CollideFrom([active |-> active, charts |-> charts, app |-> AppState, calls |-> << >>],
                       Len(active), time, speed2, hands, equippedItem(equippedSaberId),
                       difficulty, multiplier)
  IN [next |-> next, f |-> f]

audioEnded == audioTime >= audioDuration

\* history: the onNoteHit/onNoteMiss callbacks issued so far for each note
Counted(counts, calls) ==
  [c \in DOMAIN counts |->
     [j \in DOMAIN counts[c] |->
        counts[c][j] + Cardinality({k \in DOMAIN calls :
                          calls[k].note = << c, j >> /\ calls[k].cb # "onSongEnd"})]]

\* the frame callback without its guard on gameStatus
FrameInAnyStatus(hands) ==
  /\ frameRan' = TRUE
  /\ IF audioEnded
       THEN /\ gameStatus' = "VICTORY"
            /\ audioPaused' = TRUE
            /\ callbacks' = << Call("onSongEnd", << 0, 0 >>, "NONE", "none") >>
            /\ UNCHANGED << appVars, difficulty, equippedSaberId, activeChart, sceneVars,
                            audioTime, sessions, failCalls, noteCalls, driverVars, fixedVars >>
     ELSE \E r \in { FrameResult(hands) } :
             /\ nextNoteIndexRef' = r.next
             /\ activeNotesRef' = r.f.active
             /\ charts' = r.f.charts
             /\ SetApp(r.f.app)
             /\ callbacks' = r.f.calls
             /\ noteCalls' = Counted(noteCalls, r.f.calls)
          /\ UNCHANGED << gameStatus, difficulty, equippedSaberId, activeChart, notesState,
                          notesStatePending, audioTime, audioPaused, sessions, failCalls,
                          driverVars, fixedVars >>

\* hands: handPositionsRef.current as the detector last wrote it
Frame(hands) ==
  /\ frameRan' = TRUE
  /\ IF gameStatus # "PLAYING"
       THEN /\ callbacks' = << >>
            /\ UNCHANGED << gameStatus, appVars, difficulty, equippedSaberId, activeChart,
                            sceneVars, audioTime, audioPaused, sessions, failCalls, noteCalls, driverVars, fixedVars >>
     ELSE IF audioEnded
       THEN \* onSongEnd() = endGame(true)
            /\ gameStatus' = "VICTORY"
            /\ audioPaused' = TRUE
            /\ callbacks' = << Call("onSongEnd", << 0, 0 >>, "NONE", "none") >>
            /\ UNCHANGED << appVars, difficulty, equippedSaberId, activeChart, sceneVars,
                            audioTime, sessions, failCalls, noteCalls, driverVars, fixedVars >>
     ELSE \E r \in { FrameResult(hands) } :
             /\ nextNoteIndexRef' = r.next
             /\ activeNotesRef' = r.f.active
             /\ charts' = r.f.charts
             /\ SetApp(r.f.app)
             /\ callbacks' = r.f.calls
             /\ noteCalls' = Counted(noteCalls, r.f.calls)
          /\ UNCHANGED << gameStatus, difficulty, equippedSaberId, activeChart, notesState,
                          notesStatePending, audioTime, audioPaused, sessions, failCalls, driverVars, fixedVars >>

(***************************************************************************)
(* App: endGame(false) timers, startGame, lobby                            *)
(***************************************************************************)
NoFrame == frameRan' = FALSE /\ callbacks' = << >>

\* a pending setTimeout(() => endGame(false), 0) fires
EndGameTimer ==
  /\ endGameTimers > 0
  /\ endGameTimers' = endGameTimers - 1
  /\ gameStatus' = "GAME_OVER"
  /\ audioPaused' = TRUE
  /\ failCalls' = failCalls + 1
  /\ NoFrame
  /\ UNCHANGED << score, combo, multiplier, health, coins, xp, difficulty, equippedSaberId,
                  activeChart, sceneVars, audioTime, sessions, noteCalls, driverVars, fixedVars >>

\* startGame (the play button in IDLE, retryGame in GAME_OVER), the render that
\* follows and GameScene's reset effect, which schedules setNotesState([...chart]);
\* n bounds the sessions of a run, streams the Math.random() outcomes of generateChart
StartGameWith(n, streams) ==
  /\ gameStatus \in {"IDLE", "GAME_OVER"}
  /\ sessions < n
  /\ \E rnd \in streams :
       /\ charts' = Append(charts, generateChart(difficulty, rnd))
       /\ noteCalls' = Append(noteCalls, [j \in 1..Len(generateChart(difficulty, rnd)) |-> 0])
       /\ activeChart' = Len(charts) + 1
  /\ gameStatus' = "PLAYING"
  /\ score' = 0
  /\ combo' = 0
  /\ multiplier' = 1
  /\ health' = 10000
  /\ audioTime' = 0
  /\ audioPaused' = FALSE
  /\ activeNotesRef' = << >>
  /\ nextNoteIndexRef' = 0
  /\ notesStatePending' = TRUE
  /\ sessions' = sessions + 1
  /\ failCalls' = 0
  /\ NoFrame
  /\ UNCHANGED << coins, xp, endGameTimers, difficulty, equippedSaberId, notesState,
                  driverVars, fixedVars >>

StartGame == StartGameWith(MaxSessions, RandomStreams)

\* the render of the scheduled setNotesState([...chart])
RenderNotesState ==
  /\ notesStatePending
  /\ notesState' = activeChart
  /\ notesStatePending' = FALSE
  /\ NoFrame
  /\ UNCHANGED << gameStatus, appVars, difficulty, equippedSaberId, activeChart, charts,
                  activeNotesRef, nextNoteIndexRef, audioTime, audioPaused,
                  sessions, failCalls, noteCalls, driverVars, fixedVars >>

\* the saved profiles handleLogin may load (localStorage)
SavedEquipped == {"default", "ultimate_eudin"}
SavedXp == {0}
SavedCoins == {0}

\* handleLogin of a player (registered or new)
Login ==
  /\ gameStatus = "LOADING"
  /\ gameStatus' = "IDLE"
  /\ equippedSaberId' \in SavedEquipped
  /\ xp' \in SavedXp
  /\ coins' \in SavedCoins
  /\ NoFrame
  /\ UNCHANGED << score, combo, multiplier, health, endGameTimers, difficulty, activeChart,
                  sceneVars, audioTime, audioPaused, sessions, failCalls, noteCalls, driverVars, fixedVars >>

\* the difficulty buttons of the lobby
SetDifficulty ==
  /\ gameStatus = "IDLE"
  /\ \E d \in Difficulties \ {difficulty} : difficulty' = d
  /\ NoFrame
  /\ UNCHANGED << gameStatus, appVars, equippedSaberId, activeChart, sceneVars, audioTime,
                  audioPaused, sessions, failCalls, noteCalls, driverVars, fixedVars >>

\* "RETURN TO LOBBY" (GAME_OVER) and "CONTINUE" (VICTORY)
ReturnToLobby ==
  /\ gameStatus \in {"GAME_OVER", "VICTORY"}
  /\ gameStatus' = "IDLE"
  /\ NoFrame
  /\ UNCHANGED << appVars, difficulty, equippedSaberId, activeChart, sceneVars, audioTime,
                  audioPaused, sessions, failCalls, noteCalls, driverVars, fixedVars >>

(***************************************************************************)
(* Environment: the audio element                                          *)
(***************************************************************************)
\* playback advances currentTime (by one time unit), up to the song's end
AudioAdvance ==
  /\ ~audioPaused
  /\ audioTime < audioDuration
  /\ audioTime' = audioTime + 1
  /\ NoFrame
  /\ UNCHANGED << gameStatus, appVars, difficulty, equippedSaberId, activeChart, sceneVars,
                  audioPaused, sessions, failCalls, noteCalls, driverVars, fixedVars >>

(***************************************************************************)
(* Specification                                                           *)
(***************************************************************************)
Init ==
  /\ gameStatus = "LOADING"
  /\ score = 0
  /\ combo = 0
  /\ multiplier = 1
  /\ health = 10000
  /\ difficulty = "MEDIUM"
  /\ coins = 0
  /\ xp = 0
  /\ equippedSaberId = "default"
  /\ activeChart = 0
  /\ endGameTimers = 0
  /\ charts = << >>
  /\ notesState = 0
  /\ notesStatePending = FALSE
  /\ activeNotesRef = << >>
  /\ nextNoteIndexRef = 0
  /\ audioTime = 0
  /\ audioPaused = TRUE
  /\ audioDuration = SongLength
  /\ handPositionsRef = NoHands
  /\ detection = NoDetection
  /\ chartLoop = NoLoop
  /\ sessions = 0
  /\ frameRan = FALSE
  /\ callbacks = << >>
  /\ failCalls = 0
  /\ noteCalls = << >>
  /\ streak = 0
  /\ play = NoPlay
  /\ received = 0

Next ==
  \/ Login
  \/ SetDifficulty
  \/ StartGame
  \/ RenderNotesState
  \/ \E h \in HandStates : Frame(h)
  \/ EndGameTimer
  \/ ReturnToLobby
  \/ AudioAdvance

Spec == Init /\ [][Next]_vars

(***************************************************************************)
(* The App handlers under the callbacks of a scene                         *)
(***************************************************************************)
\* callbacks delivered in one session
MaxCallbacks == 32
\* callbacks of a session that differ from its prevailing one
MaxOdd == 1

AppEvents == Tiers \cup {"MISS"}
Plays == [main : AppEvents, odd : {MaxOdd}]

\* the Math.random() outcomes behind the chart of the handler-level session
AppStream == [k \in 1..StreamLen |-> 95]

Scripted(e) == e = play.main \/ play.odd > 0
Played(e) == IF e = play.main THEN play ELSE [play EXCEPT !.odd = play.odd - 1]

\* the streak a state with combo c and multiplier m starts: 0 or none (-1)
StreakBase(c, m) == IF c = 0 /\ m = 1 THEN 0 ELSE -1

\* the streak after a hit of the given tier took (c, m) to (c2, m2)
StreakAfterHit(st, c, m, tier, c2, m2) ==
  IF IsPenalty(tier) THEN StreakBase(c2, m2)
  ELSE IF st >= 0 THEN st + 1
  ELSE IF StreakBase(c, m) = 0 THEN 1
  ELSE -1

\* GameScene calls onNoteHit(note, tier); the App renders before the next callback
OnNoteHit(tier) ==
  /\ gameStatus = "PLAYING"
  /\ received < MaxCallbacks
  /\ Scripted(tier)
  /\ LET a == handleNoteHit(AppState, tier, multiplier, difficulty, equippedItem(equippedSaberId))
     IN /\ SetApp(a)
        /\ streak' = StreakAfterHit(streak, combo, multiplier, tier, a.combo, a.multiplier)
  /\ play' = Played(tier)
  /\ received' = received + 1
  /\ frameRan' = TRUE
  /\ callbacks' = << Call("onNoteHit", << 0, 0 >>, tier, "none") >>
  /\ UNCHANGED << gameStatus, difficulty, equippedSaberId, activeChart, sceneVars, audioTime,
                  audioPaused, audioDuration, sessions, failCalls, noteCalls, detectorVars, chartLoop >>

\* GameScene calls onNoteMiss(note)
OnNoteMiss ==
  /\ gameStatus = "PLAYING"
  /\ received < MaxCallbacks
  /\ Scripted("MISS")
  /\ LET a == handleNoteMiss(AppState, difficulty)
     IN /\ SetApp(a)
        /\ streak' = StreakBase(a.combo, a.multiplier)
  /\ play' = Played("MISS")
  /\ received' = received + 1
  /\ frameRan' = TRUE
  /\ callbacks' = << Call("onNoteMiss", << 0, 0 >>, "MISS", "none") >>
  /\ UNCHANGED << gameStatus, difficulty, equippedSaberId, activeChart, sceneVars, audioTime,
                  audioPaused, audioDuration, sessions, failCalls, noteCalls, detectorVars, chartLoop >>

\* a session just started by startGame, the scene's notes state rendered
InitApp ==
  /\ gameStatus = "PLAYING"
  /\ score = 0
  /\ combo = 0
  /\ multiplier = 1
  /\ health = 10000
  /\ difficulty \in Difficulties
  /\ coins \in SavedCoins
  /\ xp \in SavedXp
  /\ equippedSaberId \in SavedEquipped
  /\ activeChart = 1
  /\ endGameTimers = 0
  /\ charts = << generateChart(difficulty, AppStream) >>
  /\ notesState = 1
  /\ notesStatePending = FALSE
  /\ activeNotesRef = << >>
  /\ nextNoteIndexRef = 0
  /\ audioTime = 0
  /\ audioPaused = FALSE
  /\ audioDuration = SongLength
  /\ handPositionsRef = NoHands
  /\ detection = NoDetection
  /\ chartLoop = NoLoop
  /\ sessions = 1
  /\ frameRan = FALSE
  /\ callbacks = << >>
  /\ failCalls = 0
  /\ noteCalls = << [j \in 1..Len(generateChart(difficulty, AppStream)) |-> 0] >>
  /\ streak = 0
  /\ play \in Plays
  /\ received = 0

\* GameScene calls onSongEnd(): endGame(true)
OnSongEnd ==
  /\ gameStatus = "PLAYING"
  /\ gameStatus' = "VICTORY"
  /\ audioPaused' = TRUE
  /\ frameRan' = TRUE
  /\ callbacks' = << Call("onSongEnd", << 0, 0 >>, "NONE", "none") >>
  /\ UNCHANGED << appVars, difficulty, equippedSaberId, activeChart, sceneVars, audioTime,
                  sessions, failCalls, noteCalls, driverVars, fixedVars >>

NextApp ==
  \/ \E tier \in Tiers : OnNoteHit(tier)
  \/ OnNoteMiss
  \/ OnSongEnd
  \/ EndGameTimer

SpecApp == InitApp /\ [][NextApp]_vars

\* a scheduled timeout fires, and a playing song comes to its end
SpecAppFair == SpecApp /\ WF_vars(EndGameTimer) /\ WF_vars(OnSongEnd)

(***************************************************************************)
(* A session that reaches a gold star                                      *)
(***************************************************************************)
\* the beat loop runs far enough for the 50th counted beat
GoldLastBeat == 54
\* the length of the song of that session
GoldSongLength == 219
\* the song time at which the frame callbacks start to run
GoldResume == 210

\* the Math.random() outcomes behind the chart: all high (no beat skipped, no
\* sub-beat) or all low (every sub-beat on IMPOSSIBLE, every beat skipped below it)
GoldStreams == { [k \in 1..StreamLen |-> 95] }

\* the hand slots of HandSamples and a hand far from every note at the middle layer
GoldHandSamples ==
  HandSamples \cup { [pos |-> [x |-> 12, y |-> 40], vel |-> [x |-> 30, y |-> 0, z |-> 0]] }

GoldHandStates ==
  { [left |-> l.pos, right |-> r.pos, leftVelocity |-> l.vel, rightVelocity |-> r.vel] :
      l \in GoldHandSamples, r \in GoldHandSamples }

\* a session started by startGame whose frame callbacks did not run while the song
\* played up to GoldResume (requestAnimationFrame suspended, the audio playing on)
InitGold ==
  /\ gameStatus = "PLAYING"
  /\ score = 0
  /\ combo = 0
  /\ multiplier = 1
  /\ health = 10000
  /\ difficulty \in Difficulties
  /\ coins \in SavedCoins
  /\ xp \in SavedXp
  /\ equippedSaberId \in SavedEquipped
  /\ activeChart = 1
  /\ endGameTimers = 0
  /\ \E rnd \in GoldStreams :
       /\ charts = << generateChartTo(difficulty, rnd, GoldLastBeat) >>
       /\ noteCalls = << [j \in 1..Len(generateChartTo(difficulty, rnd, GoldLastBeat)) |-> 0] >>
  /\ notesState = 1
  /\ notesStatePending = FALSE
  /\ activeNotesRef = << >>
  /\ nextNoteIndexRef = 0
  /\ audioTime = GoldResume
  /\ audioPaused = FALSE
  /\ audioDuration = GoldSongLength
  /\ handPositionsRef = NoHands
  /\ detection = NoDetection
  /\ chartLoop = NoLoop
  /\ sessions = 1
  /\ frameRan = FALSE
  /\ callbacks = << >>
  /\ failCalls = 0
  /\ streak = 0
  /\ play = NoPlay
  /\ received = 0

NextGold ==
  \/ \E h \in GoldHandStates : Frame(h)
  \/ AudioAdvance
  \/ EndGameTimer

SpecGold == InitGold /\ [][NextGold]_vars

(***************************************************************************)
(* A song clock that jumps back                                            *)
(***************************************************************************)
\* currentTime of the playing song is set back (a seek on the audio element)
AudioSeek ==
  /\ gameStatus = "PLAYING"
  /\ ~audioPaused
  /\ \E t \in 0..(audioTime - 1) : audioTime' = t
  /\ NoFrame
  /\ UNCHANGED << gameStatus, appVars, difficulty, equippedSaberId, activeChart, sceneVars,
                  audioPaused, sessions, failCalls, noteCalls, driverVars, fixedVars >>

NextSeek ==
  \/ Next
  \/ AudioSeek

SpecSeek == Init /\ [][NextSeek]_vars

(***************************************************************************)
(* A player who plays again                                                *)
(***************************************************************************)
\* the sessions of a run
RetrySessions == 2

\* the Math.random() outcomes behind the charts: all high or all low
RetryStreams == { [k \in 1..StreamLen |-> v] : v \in RandVals }

\* hands out of sight, and the left hand cutting down at lane 1 / layer 0
RetryHandStates ==
  { h \in HandStates : h.right = Null /\ h.rightVelocity = ZeroVelocity /\ h.left # [x |-> 4, y |-> 8] }

\* the lobby after handleLogin and the choice of a difficulty
InitRetry ==
  /\ gameStatus = "IDLE"
  /\ score = 0
  /\ combo = 0
  /\ multiplier = 1
  /\ health = 10000
  /\ difficulty \in Difficulties
  /\ coins \in SavedCoins
  /\ xp \in SavedXp
  /\ equippedSaberId \in SavedEquipped
  /\ activeChart = 0
  /\ endGameTimers = 0
  /\ charts = << >>
  /\ notesState = 0
  /\ notesStatePending = FALSE
  /\ activeNotesRef = << >>
  /\ nextNoteIndexRef = 0
  /\ audioTime = 0
  /\ audioPaused = TRUE
  /\ audioDuration = SongLength
  /\ handPositionsRef = NoHands
  /\ detection = NoDetection
  /\ chartLoop = NoLoop
  /\ sessions = 0
  /\ frameRan = FALSE
  /\ callbacks = << >>
  /\ failCalls = 0
  /\ noteCalls = << >>
  /\ streak = 0
  /\ play = NoPlay
  /\ received = 0

NextRetry ==
  \/ StartGameWith(RetrySessions, RetryStreams)
  \/ RenderNotesState
  \/ \E h \in RetryHandStates : Frame(h)
  \/ EndGameTimer
  \/ ReturnToLobby
  \/ AudioAdvance

SpecRetry == InitRetry /\ [][NextRetry]_vars

(***************************************************************************)
(* A session with the detector running                                     *)
(***************************************************************************)
\* processResults calls in one run
MaxDetections == 4

\* index finger tips the landmarker may report: at world (-0.4, 0.8) and (-0.4, 1.3),
\* classified as the left hand or, the lower one, as the right hand
DetectedHands ==
  { [isRight |-> FALSE, tip |-> [x |-> 29, y |-> 35]],
    [isRight |-> FALSE, tip |-> [x |-> 29, y |-> 25]],
    [isRight |-> TRUE, tip |-> [x |-> 29, y |-> 35]] }

\* results.landmarks with results.handedness: one hand in view
Results == { << >> } \cup { << a >> : a \in DetectedHands }

\* the Math.random() outcomes behind the chart of the session
DetectStream == [k \in 1..StreamLen |-> 2]

\* milliseconds between two processResults calls
Elapsed == { 1, 100 }

processResults(results, ms) ==
  /\ detection.cycle < MaxDetections
  /\ LET s == handPositionsRef
         newLeft == NewHand(results, Len(results), FALSE)
         newRight == NewHand(results, Len(results), TRUE)
         cycle == detection.cycle + 1
     IN /\ (newLeft # Null /\ s.left # Null) => OnGrid(s.left, newLeft)
        /\ (newRight # Null /\ s.right # Null) => OnGrid(s.right, newRight)
        /\ handPositionsRef' =
             [left |-> NewPosition(s.left, newLeft),
              right |-> NewPosition(s.right, newRight),
              lastLeft |-> NewLast(s.left, newLeft, s.lastLeft),
              lastRight |-> NewLast(s.right, newRight, s.lastRight),
              leftVelocity |-> NewVelocity(s.left, newLeft, s.leftVelocity, ms),
              rightVelocity |-> NewVelocity(s.right, newRight, s.rightVelocity, ms),
              lastTimestamp |-> s.lastTimestamp + ms]
        /\ detection' =
             [cycle |-> cycle,
              left |-> cycle,
              right |-> cycle,
              leftVelocity |-> IF VelocityUpdated(s.left, newLeft, ms)
                                 THEN cycle ELSE detection.leftVelocity,
              rightVelocity |-> IF VelocityUpdated(s.right, newRight, ms)
                                  THEN cycle ELSE detection.rightVelocity]
  /\ NoFrame
  /\ UNCHANGED << gameStatus, appVars, difficulty, equippedSaberId, activeChart, sceneVars,
                  audioTime, audioPaused, audioDuration, sessions, failCalls, noteCalls,
                  driverVars, chartLoop >>

\* const hands = handPositionsRef.current
RefHands ==
  [left |-> handPositionsRef.left, right |-> handPositionsRef.right,
   leftVelocity |-> handPositionsRef.leftVelocity,
   rightVelocity |-> handPositionsRef.rightVelocity]

\* a session just started by startGame, the scene's notes state rendered
InitDetect ==
  /\ gameStatus = "PLAYING"
  /\ score = 0
  /\ combo = 0
  /\ multiplier = 1
  /\ health = 10000
  /\ difficulty = "IMPOSSIBLE"
  /\ coins \in SavedCoins
  /\ xp \in SavedXp
  /\ equippedSaberId = "default"
  /\ activeChart = 1
  /\ endGameTimers = 0
  /\ charts = << generateChart(difficulty, DetectStream) >>
  /\ noteCalls = << [j \in 1..Len(generateChart(difficulty, DetectStream)) |-> 0] >>
  /\ notesState = 1
  /\ notesStatePending = FALSE
  /\ activeNotesRef = << >>
  /\ nextNoteIndexRef = 0
  /\ audioTime = 0
  /\ audioPaused = FALSE
  /\ audioDuration = SongLength
  /\ handPositionsRef = NoHands
  /\ detection = NoDetection
  /\ chartLoop = NoLoop
  /\ sessions = 1
  /\ frameRan = FALSE
  /\ callbacks = << >>
  /\ failCalls = 0
  /\ streak = 0
  /\ play = NoPlay
  /\ received = 0

NextDetect ==
  \/ \E results \in Results, ms \in Elapsed : processResults(results, ms)
  \/ Frame(RefHands)
  \/ AudioAdvance
  \/ EndGameTimer

SpecDetect == InitDetect /\ [][NextDetect]_vars

(***************************************************************************)
(* A session played to its end                                             *)
(***************************************************************************)
\* a session just started by startGame, the scene's notes state rendered
InitPlayWith(streams) ==
  /\ gameStatus = "PLAYING"
  /\ score = 0
  /\ combo = 0
  /\ multiplier = 1
  /\ health = 10000
  /\ difficulty \in Difficulties
  /\ coins \in SavedCoins
  /\ xp \in SavedXp
  /\ equippedSaberId \in SavedEquipped
  /\ activeChart = 1
  /\ endGameTimers = 0
  /\ \E rnd \in streams :
       /\ charts = << generateChart(difficulty, rnd) >>
       /\ noteCalls = << [j \in 1..Len(generateChart(difficulty, rnd)) |-> 0] >>
  /\ notesState = 1
  /\ notesStatePending = FALSE
  /\ activeNotesRef = << >>
  /\ nextNoteIndexRef = 0
  /\ audioTime = 0
  /\ audioPaused = FALSE
  /\ audioDuration = SongLength
  /\ handPositionsRef = NoHands
  /\ detection = NoDetection
  /\ chartLoop = NoLoop
  /\ sessions = 1
  /\ frameRan = FALSE
  /\ callbacks = << >>
  /\ failCalls = 0
  /\ streak = 0
  /\ play = NoPlay
  /\ received = 0

InitPlay == InitPlayWith({ DetectStream })

NextPlay ==
  \/ \E h \in HandStates : Frame(h)
  \/ AudioAdvance
  \/ EndGameTimer

SpecPlay == InitPlay /\ [][NextPlay]_vars

\* the frame callback runs on every animation frame, and a playing song plays on
SpecPlayFair ==
  SpecPlay /\ WF_vars(\E h \in HandStates : Frame(h)) /\ WF_vars(AudioAdvance)

(***************************************************************************)
(* generateChart, one beat at a time                                       *)
(***************************************************************************)
\* the beat loop runs up to this beat (300 in the source)
ChartLastBeat == 110

ChartStreams == RandomStreams

\* generateChart(difficulty) is called: the loop stands before beat 4
InitChart ==
  /\ gameStatus = "IDLE"
  /\ score = 0
  /\ combo = 0
  /\ multiplier = 1
  /\ health = 10000
  /\ difficulty \in Difficulties
  /\ coins \in SavedCoins
  /\ xp \in SavedXp
  /\ equippedSaberId = "default"
  /\ activeChart = 0
  /\ endGameTimers = 0
  /\ charts = << >>
  /\ notesState = 0
  /\ notesStatePending = FALSE
  /\ activeNotesRef = << >>
  /\ nextNoteIndexRef = 0
  /\ audioTime = 0
  /\ audioPaused = TRUE
  /\ audioDuration = SongLength
  /\ handPositionsRef = NoHands
  /\ detection = NoDetection
  /\ \E rnd \in ChartStreams :
       chartLoop = [running |-> TRUE, rnd |-> rnd, i |-> FirstBeat, g |-> LoopStart,
                    passed |-> 0, returned |-> FALSE, chart |-> << >>]
  /\ sessions = 0
  /\ frameRan = FALSE
  /\ callbacks = << >>
  /\ failCalls = 0
  /\ noteCalls = << >>
  /\ streak = 0
  /\ play = NoPlay
  /\ received = 0

\* Math.random() < skipRate at the head of the iteration
Skipped(g, d, rnd) == Random(rnd, g.k) < ChartRates[d].skipRate

\* one iteration of for (let i = 4; i < 300; i += 1); passed counts the iterations
\* past the random skip (history)
BeatStep ==
  /\ chartLoop.running
  /\ chartLoop.i < ChartLastBeat
  /\ chartLoop' = [chartLoop EXCEPT
                     !.g = Beat(chartLoop.g, difficulty, chartLoop.i, chartLoop.rnd),
                     !.i = chartLoop.i + 1,
                     !.passed = IF Skipped(chartLoop.g, difficulty, chartLoop.rnd)
                                  THEN chartLoop.passed ELSE chartLoop.passed + 1]
  /\ UNCHANGED << gameStatus, appVars, difficulty, equippedSaberId, activeChart, sceneVars,
                  audioTime, audioPaused, audioDuration, sessions, frameRan, callbacks,
                  failCalls, noteCalls, driverVars, detectorVars >>

\* return notes.sort((a, b) => a.time - b.time)
ChartReturn ==
  /\ chartLoop.running
  /\ chartLoop.i = ChartLastBeat
  /\ ~chartLoop.returned
  /\ chartLoop' = [chartLoop EXCEPT !.returned = TRUE, !.chart = SortByTime(chartLoop.g.notes)]
  /\ UNCHANGED << gameStatus, appVars, difficulty, equippedSaberId, activeChart, sceneVars,
                  audioTime, audioPaused, audioDuration, sessions, frameRan, callbacks,
                  failCalls, noteCalls, driverVars, detectorVars >>

NextChart == BeatStep \/ ChartReturn

SpecChart == InitChart /\ [][NextChart]_vars

(***************************************************************************)
(* A session played with cuts against the required direction               *)
(***************************************************************************)
\* the left hand unseen or at lane 1 / layer 0 moving up at 3.0, the right hand unseen
\* or still at lane 2 / layer 0
CutHandStates ==
  { [left |-> l.pos, right |-> r.pos, leftVelocity |-> l.vel, rightVelocity |-> r.vel] :
      l \in { [pos |-> Null, vel |-> ZeroVelocity],
              [pos |-> [x |-> -4, y |-> 8], vel |-> [x |-> 0, y |-> 30, z |-> 0]] },
      r \in { [pos |-> Null, vel |-> ZeroVelocity],
              [pos |-> [x |-> 4, y |-> 8], vel |-> ZeroVelocity] } }

InitCut == InitPlayWith(RandomStreams)

NextCut ==
  \/ \E h \in CutHandStates : Frame(h)
  \/ AudioAdvance
  \/ EndGameTimer

SpecCut == InitCut /\ [][NextCut]_vars

(***************************************************************************)
(* A session with a long run of hits                                       *)
(***************************************************************************)
\* the beat loop runs far enough for 36 notes on IMPOSSIBLE
StreakLastBeat == 13
\* the length of the song of that session
StreakSongLength == 52
\* the song times from which the frame callback and the hands are left free
FreeFrom == {23, 33, 43}
\* the song time from which they are free up to the end of the song
FreeToEnd == 45
\* ... and for how long
FreeLen == 1

\* the frame callback runs once per time unit, both hands seen, but for the free times
\* and the end of the song
Free(t) == t >= FreeToEnd \/ \E a \in FreeFrom : a <= t /\ t < a + FreeLen

BothHandsSeen ==
  [left |-> [x |-> -4, y |-> 8], right |-> [x |-> 4, y |-> 8],
   leftVelocity |-> ZeroVelocity, rightVelocity |-> ZeroVelocity]

\* both hands seen, the right hand lost, both hands lost
StreakHandStates ==
  { BothHandsSeen, [BothHandsSeen EXCEPT !.right = Null], [BothHandsSeen EXCEPT !.left = Null,
                                                                           !.right = Null] }

\* a session just started by startGame on IMPOSSIBLE with the ultimate saber equipped,
\* every sub-beat of the chart filled
InitStreak ==
  /\ gameStatus = "PLAYING"
  /\ score = 0
  /\ combo = 0
  /\ multiplier = 1
  /\ health = 10000
  /\ difficulty = "IMPOSSIBLE"
  /\ coins \in SavedCoins
  /\ xp \in SavedXp
  /\ equippedSaberId = "ultimate_eudin"
  /\ activeChart = 1
  /\ endGameTimers = 0
  /\ charts = << generateChartTo(difficulty, DetectStream, StreakLastBeat) >>
  /\ noteCalls = << [j \in 1..Len(generateChartTo(difficulty, DetectStream, StreakLastBeat)) |-> 0] >>
  /\ notesState = 1
  /\ notesStatePending = FALSE
  /\ activeNotesRef = << >>
  /\ nextNoteIndexRef = 0
  /\ audioTime = 0
  /\ audioPaused = FALSE
  /\ audioDuration = StreakSongLength
  /\ handPositionsRef = NoHands
  /\ detection = NoDetection
  /\ chartLoop = NoLoop
  /\ sessions = 1
  /\ frameRan = FALSE
  /\ callbacks = << >>
  /\ failCalls = 0
  /\ streak = 0
  /\ play = NoPlay
  /\ received = 0

\* the frame callback of this session
StreakFrame(h) ==
  /\ Free(audioTime) \/ (~frameRan /\ h = BothHandsSeen)
  /\ Frame(h)

\* the song plays on, a frame rendered in every time unit but for the free times
StreakAudio ==
  /\ Free(audioTime) \/ frameRan
  /\ AudioAdvance

NextStreak ==
  \/ \E h \in StreakHandStates : StreakFrame(h)
  \/ StreakAudio
  \/ EndGameTimer

SpecStreak == InitStreak /\ [][NextStreak]_vars

(***************************************************************************)
(* Properties of a play session                                            *)
(***************************************************************************)
Resolved(n) == n.hit \/ n.missed
NoteRefs == UNION { { << c, j >> : j \in DOMAIN charts[c] } : c \in DOMAIN charts }
NoteAt(ref) == charts[ref[1]][ref[2]]
NoteSpeed2 == activeNoteSpeed2(difficulty, xp)
Item == equippedItem(equippedSaberId)

\* C1: every chart generateChart returned is ordered by non-decreasing time: each
\* note's time is at most the time of the note after it, on every difficulty and for
\* every outcome of the random choices, the IMPOSSIBLE sub-beat notes included.
C1_ChartSortedByTime ==
  \A c \in DOMAIN charts :
    \A j \in 1..(Len(charts[c]) - 1) : charts[c][j].time <= charts[c][j + 1].time

\* a chart in which a main-beat note stands before a sub-beat note that was pushed
\* (numbered) before it
C1_SubBeatMerged ==
  \E c \in DOMAIN charts : \E j, k \in DOMAIN charts[c] :
    /\ j < k
    /\ charts[c][j].id[1] = "note"
    /\ charts[c][k].id[1] = "note-sub-1"
    /\ charts[c][k].id[2] < charts[c][j].id[2]

\* C2: in every reachable state no note has both hit = true and missed = true.
C2_NeverHitAndMissed ==
  \A ref \in NoteRefs : ~(NoteAt(ref).hit /\ NoteAt(ref).missed)

\* a session in which one note was hit and another one missed
C2_OneHitOneMissed ==
  /\ \E ref \in NoteRefs : NoteAt(ref).hit
  /\ \E ref \in NoteRefs : NoteAt(ref).missed

\* C3: each note is resolved at most once: the onNoteHit and onNoteMiss callbacks
\* issued for one note never number more than 1, and no step takes a resolved note
\* (hit or missed) back to unresolved.
C3_ResolvedAtMostOnce ==
  [][\A c \in DOMAIN charts : \A j \in DOMAIN charts[c] :
       /\ noteCalls'[c][j] <= 1
       /\ Resolved(charts[c][j]) => Resolved(charts'[c][j])]_vars

\* a frame ran, issuing nothing, on a playing session that holds a resolved note
\* with its one callback
C3_FrameAfterResolution ==
  /\ gameStatus = "PLAYING"
  /\ frameRan
  /\ callbacks = << >>
  /\ \E ref \in NoteRefs : Resolved(NoteAt(ref)) /\ noteCalls[ref[1]][ref[2]] = 1

\* C4: in one play session endGame(false) runs once, however many misses of one
\* tick find health at 0.
C4_FailureOnce == failCalls <= 1

\* the notes a tick collides: those in flight before it and those it spawns
TickRefs ==
  { activeNotesRef[k] : k \in DOMAIN activeNotesRef }
    \cup { << notesState, j >> : j \in (nextNoteIndexRef + 1)..nextNoteIndexRef' }

\* the step is a tick of a playing session whose song has not ended
PlayingTick == frameRan' /\ gameStatus = "PLAYING" /\ ~audioEnded

\* C9: in any tick, an active unresolved note whose position is beyond the miss plane
\* (currentZ > MISS_Z) is resolved as missed, with its onNoteMiss callback, and not
\* as a hit, whatever the hands and the equipped item's hit window.
C9_MissPlaneBeforeHitTest ==
  [][PlayingTick =>
       \A ref \in TickRefs :
         (~Resolved(NoteAt(ref)) /\ CurrentZ(NoteAt(ref), audioTime, NoteSpeed2) > MISS_Z * ZS)
           => /\ charts'[ref[1]][ref[2]].missed
              /\ ~charts'[ref[1]][ref[2]].hit
              /\ \E k \in DOMAIN callbacks' :
                   callbacks'[k].note = ref /\ callbacks'[k].cb = "onNoteMiss"
              /\ \A k \in DOMAIN callbacks' :
                   callbacks'[k].note = ref => callbacks'[k].cb = "onNoteMiss"]_vars

\* a tick missed a note that was beyond the miss plane and still inside the hit
\* window of the equipped item, with a hand within the hit radius
C9_MissedInsideHitWindow ==
  /\ frameRan
  /\ \E k \in DOMAIN callbacks :
       /\ callbacks[k].cb = "onNoteMiss"
       /\ callbacks[k].reach # "none"
       /\ NoteAt(callbacks[k].note).missed
       /\ InHitWindow(NoteAt(callbacks[k].note), audioTime, NoteSpeed2, Item)

\* only the hand other than note.type is within the hit radius of the note
OnlyWrongHandInRadius(n, h) ==
  /\ InRadius(HandPos(h, OtherHand(n.type)), n, Item)
  /\ ~InRadius(HandPos(h, n.type), n, Item)

\* a normal unresolved note inside the hit window, only the wrong hand in radius
WrongHandInWindow(n, h) ==
  /\ ~Resolved(n)
  /\ ~n.isGoldStar
  /\ InHitWindow(n, audioTime, NoteSpeed2, Item)
  /\ OnlyWrongHandInRadius(n, h)

\* the step resolves the note as a hit of tier WRONG_SABER
HitAsWrongSaber(ref) ==
  /\ charts'[ref[1]][ref[2]].hit
  /\ ~charts'[ref[1]][ref[2]].missed
  /\ \E k \in DOMAIN callbacks' :
       /\ callbacks'[k].note = ref
       /\ callbacks'[k].cb = "onNoteHit"
       /\ callbacks'[k].tier = "WRONG_SABER"

\* a step all of whose callbacks are WRONG_SABER hits leaves score and coins; the
\* points and coins of a WRONG_SABER hit are 0 for every item, difficulty, multiplier
WrongSaberAddsNothing ==
  (callbacks' # << >> /\ \A k \in DOMAIN callbacks' : callbacks'[k].tier = "WRONG_SABER")
    => /\ score' = score
       /\ coins' = coins
       /\ \A j \in DOMAIN SABER_CATALOG : \A d \in Difficulties : \A m \in {1, 2, 4, 8} :
            /\ HitPoints("WRONG_SABER", d, SABER_CATALOG[j]) * m = 0
            /\ HitCoins("WRONG_SABER", d, SABER_CATALOG[j]) = 0

\* C10, with the miss plane stated: a tick that finds a normal (not gold star)
\* unresolved note inside the hit window and not beyond the miss plane
\* (currentZ <= MISS_Z), with only the wrong hand within the hit radius, resolves it
\* as a hit of tier WRONG_SABER, and that resolution adds 0 to score and 0 to coins,
\* for every item, difficulty and multiplier.
C10_WrongSaberScoresNothing ==
  [][PlayingTick =>
       /\ \A h \in HandStates :
            Frame(h) =>
              \A ref \in TickRefs :
                ( /\ WrongHandInWindow(NoteAt(ref), h)
                  /\ ~(CurrentZ(NoteAt(ref), audioTime, NoteSpeed2) > MISS_Z * ZS) )
                => HitAsWrongSaber(ref)
       /\ WrongSaberAddsNothing]_vars

\* C10 as stated: every normal unresolved note inside the hit window with only the
\* wrong hand within the hit radius is resolved as a hit of tier WRONG_SABER that
\* adds 0 to score and coins.
C10_WrongHandInWindowIsWrongSaber ==
  [][PlayingTick =>
       /\ \A h \in HandStates :
            Frame(h) => \A ref \in TickRefs :
                          WrongHandInWindow(NoteAt(ref), h) => HitAsWrongSaber(ref)
       /\ WrongSaberAddsNothing]_vars

\* a tick on IMPOSSIBLE with the ultimate saber whose only callback is a WRONG_SABER
\* hit by the wrong hand, score and coins still 0
C10_WrongSaberHit ==
  /\ frameRan
  /\ difficulty = "IMPOSSIBLE"
  /\ equippedSaberId = "ultimate_eudin"
  /\ Len(callbacks) = 1
  /\ callbacks[1].cb = "onNoteHit"
  /\ callbacks[1].tier = "WRONG_SABER"
  /\ callbacks[1].reach = "wrong"
  /\ NoteAt(callbacks[1].note).hit
  /\ score = 0
  /\ coins = 0

\* an unresolved gold-star note inside the hit window of the equipped item
GoldInWindow(n) ==
  /\ n.isGoldStar
  /\ ~Resolved(n)
  /\ InHitWindow(n, audioTime, NoteSpeed2, Item)

\* one of the two hands is within the hit radius of the note
AnyHandInRadius(n, h) == InRadius(h.left, n, Item) \/ InRadius(h.right, n, Item)

\* the step resolves the note as a hit of the given tier
HitAs(ref, tier) ==
  /\ charts'[ref[1]][ref[2]].hit
  /\ ~charts'[ref[1]][ref[2]].missed
  /\ \E k \in DOMAIN callbacks' :
       /\ callbacks'[k].note = ref
       /\ callbacks'[k].cb = "onNoteHit"
       /\ callbacks'[k].tier = tier
  /\ \A k \in DOMAIN callbacks' :
       callbacks'[k].note = ref => (callbacks'[k].cb = "onNoteHit" /\ callbacks'[k].tier = tier)

\* the step leaves the note in flight: unresolved, no callback, still in the active set
StaysInFlight(ref) ==
  /\ ~Resolved(charts'[ref[1]][ref[2]])
  /\ \A k \in DOMAIN callbacks' : callbacks'[k].note # ref
  /\ \E k \in DOMAIN activeNotesRef' : activeNotesRef'[k] = ref

\* C11, with the miss plane stated: a tick that finds an unresolved gold-star note
\* inside the hit window and not beyond the miss plane (currentZ <= MISS_Z) resolves
\* it as a hit of tier GOLD_STAR if the left or the right hand is within the hit
\* radius, whatever the hands' velocities, the note's cutDirection and the equipped
\* item, and leaves it unresolved in that tick if neither hand is.
C11_GoldStarByEitherHand ==
  [][PlayingTick =>
       \A h \in GoldHandStates :
         Frame(h) =>
           \A ref \in TickRefs :
             ( /\ GoldInWindow(NoteAt(ref))
               /\ ~PastMissPlane(NoteAt(ref), audioTime, NoteSpeed2) )
             => IF AnyHandInRadius(NoteAt(ref), h)
                  THEN HitAs(ref, "GOLD_STAR")
                  ELSE StaysInFlight(ref)]_vars

\* C11 as stated: every unresolved gold-star note inside the hit window is resolved
\* as a GOLD_STAR hit if a hand is within the hit radius and stays unresolved if
\* none is.
C11_GoldStarInWindow ==
  [][PlayingTick =>
       \A h \in GoldHandStates :
         Frame(h) =>
           \A ref \in TickRefs :
             GoldInWindow(NoteAt(ref))
             => IF AnyHandInRadius(NoteAt(ref), h)
                  THEN HitAs(ref, "GOLD_STAR")
                  ELSE StaysInFlight(ref)]_vars

\* a tick with the default saber resolved a gold-star note (type left) as GOLD_STAR
\* with the right hand alone within the hit radius
C11_GoldStarByRightHand ==
  /\ frameRan
  /\ equippedSaberId = "default"
  /\ \E k \in DOMAIN callbacks :
       /\ callbacks[k].cb = "onNoteHit"
       /\ callbacks[k].tier = "GOLD_STAR"
       /\ callbacks[k].reach = "wrong"
       /\ NoteAt(callbacks[k].note).isGoldStar
       /\ NoteAt(callbacks[k].note).type = "left"
       /\ NoteAt(callbacks[k].note).hit

\* the velocity points along the required cut direction (any velocity for ANY)
Aligned(v, cut) ==
  cut = "ANY" \/ (Along(v, cut) > 0 /\ Along(v, cut) * Along(v, cut) = Speed2(v))

\* a normal unresolved note inside the hit window, the hand of note.type exactly at
\* the note's lane and layer, faster than 2.0 and moving along the cut direction
CleanCutInWindow(n, h) ==
  /\ ~Resolved(n)
  /\ ~n.isGoldStar
  /\ InHitWindow(n, audioTime, NoteSpeed2, Item)
  /\ HandPos(h, n.type) # Null
  /\ DistXY2(HandPos(h, n.type), n) = 0
  /\ Speed2(HandVel(h, n.type)) > 400
  /\ Aligned(HandVel(h, n.type), n.cutDirection)

\* C12, with the miss plane stated: a tick that finds a normal unresolved note inside
\* the hit window and not beyond the miss plane (currentZ <= MISS_Z), with the
\* correct hand exactly at the note's lane/layer coordinates, hand speed above 2.0
\* and velocity aligned with the required cut direction (or cutDirection ANY),
\* resolves it as a hit of tier PERFECT.
C12_CleanCutIsPerfect ==
  [][PlayingTick =>
       \A h \in HandStates :
         Frame(h) =>
           \A ref \in TickRefs :
             ( /\ CleanCutInWindow(NoteAt(ref), h)
               /\ ~PastMissPlane(NoteAt(ref), audioTime, NoteSpeed2) )
             => HitAs(ref, "PERFECT")]_vars

\* C12 as stated: every normal unresolved note inside the hit window with the correct
\* hand at its coordinates, faster than 2.0 and aligned, is resolved as PERFECT.
C12_CleanCutInWindowIsPerfect ==
  [][PlayingTick =>
       \A h \in HandStates :
         Frame(h) =>
           \A ref \in TickRefs :
             CleanCutInWindow(NoteAt(ref), h) => HitAs(ref, "PERFECT")]_vars

\* a tick with the default saber resolved a note of cut direction DOWN as PERFECT
\* by its own hand
C12_PerfectDownCut ==
  /\ frameRan
  /\ equippedSaberId = "default"
  /\ \E k \in DOMAIN callbacks :
       /\ callbacks[k].cb = "onNoteHit"
       /\ callbacks[k].tier = "PERFECT"
       /\ callbacks[k].reach = "correct"
       /\ NoteAt(callbacks[k].note).cutDirection = "DOWN"
       /\ ~NoteAt(callbacks[k].note).isGoldStar
       /\ NoteAt(callbacks[k].note).hit

\* C13: after a new session started (startGame from IDLE or retry from GAME_OVER),
\* every tick that runs with status PLAYING works on the chart of the new session
\* only: every note it holds in flight, spawns, hit-tests or resolves is a note of
\* that chart, and none is a note object of the chart of an earlier session, for
\* every interleaving of startGame, the reset effect, the render of its
\* setNotesState and the frame callback.
C13_TicksOnSessionChart ==
  [][PlayingTick =>
       /\ \A ref \in TickRefs : ref[1] = activeChart
       /\ \A k \in DOMAIN callbacks' : callbacks'[k].note[1] = activeChart]_vars

C5_HealthZeroEndsInFailure ==
  (gameStatus = "PLAYING" /\ health = 0) ~> (gameStatus = "GAME_OVER")

\* C6: health stays within [0, 100] in every reachable state.
C6_HealthInRange == 0 <= health /\ health <= 10000

\* a GOLD_STAR hit (+50) has left health at 100
C6_GoldStarAtFullHealth ==
  /\ Len(callbacks) = 1
  /\ callbacks[1].tier = "GOLD_STAR"
  /\ received >= 2
  /\ health = 10000

\* the multiplier C7 states for n non-penalty hits in a row
StreakMultiplier(n) == IF n <= 10 THEN 1 ELSE IF n <= 20 THEN 2 ELSE IF n <= 30 THEN 4 ELSE 8

\* C7: after n non-penalty hits in a row that started at combo 0 and multiplier 1,
\* the multiplier is 1 for n <= 10, 2 for 11..20, 4 for 21..30 and 8 from 31 on.
C7_MultiplierSteps == streak >= 0 => multiplier = StreakMultiplier(streak)

\* 31 non-penalty hits in a row: the multiplier is 8
C7_ThirtyOneHits == streak = 31 /\ combo = 31 /\ multiplier = 8

\* C8: a miss sets combo to 0 and multiplier to 1, takes health to
\* max(0, health - healthDrain of the difficulty), and leaves score, coins and xp.
C8_MissEffects ==
  [][(Len(callbacks') = 1 /\ callbacks'[1].cb = "onNoteMiss")
       => /\ combo' = 0
          /\ multiplier' = 1
          /\ health' = Max(0, health - DIFFICULTY_CONFIG[difficulty].healthDrain)
          /\ score' = score
          /\ coins' = coins
          /\ xp' = xp]_vars

\* a miss on HARD after scoring hits took health to 0, where 100 is no multiple of
\* the drain
C8_MissClampedAtZero ==
  /\ Len(callbacks) = 1
  /\ callbacks[1].cb = "onNoteMiss"
  /\ difficulty = "HARD"
  /\ gameStatus = "PLAYING"
  /\ health = 0
  /\ combo = 0
  /\ multiplier = 1

\* C15: the miss that takes health to 0 leaves the status PLAYING in its own step
\* and schedules one endGame(false); the status becomes GAME_OVER in a later step,
\* which is eventually taken.
C15_FailureDeferred ==
  /\ [][(Len(callbacks') = 1 /\ callbacks'[1].cb = "onNoteMiss" /\ health > 0 /\ health' = 0)
          => /\ gameStatus = "PLAYING"
             /\ gameStatus' = "PLAYING"
             /\ endGameTimers' = endGameTimers + 1]_vars
  /\ (Len(callbacks) = 1 /\ callbacks[1].cb = "onNoteMiss" /\ health = 0)
       ~> (gameStatus = "GAME_OVER")

\* the deferred endGame(false) of a miss has run: GAME_OVER at health 0, the step
\* no callback of the scene
C15_GameOverAfterMiss ==
  /\ gameStatus = "GAME_OVER"
  /\ health = 0
  /\ failCalls = 1
  /\ ~frameRan
  /\ received > 0

(***************************************************************************)
(* Properties of the note lifecycle                                        *)
(***************************************************************************)
\* C16: a note of the session's chart that is resolved (missed, or hit with any
\* tier) is never offered again in that session: no later step has it in the active
\* set, issues a callback for it or changes it, wherever the song time moves, a
\* move back to before the note's spawn time included.
C16_ResolvedNeverOfferedAgain ==
  [][\A ref \in NoteRefs :
       (ref[1] = activeChart /\ activeChart' = activeChart /\ Resolved(NoteAt(ref)))
         => /\ \A k \in DOMAIN activeNotesRef' : activeNotesRef'[k] # ref
            /\ \A k \in DOMAIN callbacks' : callbacks'[k].note # ref
            /\ charts'[ref[1]][ref[2]] = NoteAt(ref)]_vars

\* a tick ran, issuing nothing, at a song time before the spawn time of a resolved
\* note of the session
C16_TickBeforeSpawnOfResolved ==
  /\ frameRan
  /\ gameStatus = "PLAYING"
  /\ callbacks = << >>
  /\ \E j \in DOMAIN ChartNotes(notesState) :
       /\ notesState = activeChart
       /\ Resolved(charts[notesState][j])
       /\ ~SpawnDue(charts[notesState][j], audioTime, NoteSpeed2)

\* the note is in the active set after the step
InFlightAfter(ref) == \E k \in DOMAIN activeNotesRef' : activeNotesRef'[k] = ref

\* C17: after the spawn step of every tick of a PLAYING session, every note of the
\* scene's chart with note.time - spawnLeadTime <= songTime is in the active set or
\* resolved, and every note the tick spawned has note.time - spawnLeadTime <= songTime,
\* for every chart generateChart returned.
C17_DueNotesSpawned ==
  [][PlayingTick =>
       /\ \A j \in DOMAIN ChartNotes(notesState) :
            SpawnDue(charts[notesState][j], audioTime, NoteSpeed2)
              => (InFlightAfter(<< notesState, j >>) \/ Resolved(charts'[notesState][j]))
       /\ \A j \in (nextNoteIndexRef + 1)..nextNoteIndexRef' :
            SpawnDue(charts[notesState][j], audioTime, NoteSpeed2)]_vars

\* C18: at the end of every tick the active set holds no resolved note: every note
\* in activeNotesRef has hit = false and missed = false.
C18_ActiveSetUnresolved ==
  \A k \in DOMAIN activeNotesRef : ~Resolved(NoteAt(activeNotesRef[k]))

\* C19: a hand whose position is null hits no note: in a tick where the hand of
\* note.type is null a normal note is hit only as WRONG_SABER, by the other hand
\* within the hit radius (or it stays unresolved or is missed), and a tick where
\* both hands are null resolves no note as a hit.
C19_NullHandHitsNothing ==
  [][PlayingTick =>
       \A h \in HandStates :
         Frame(h) =>
           \A k \in DOMAIN callbacks' :
             callbacks'[k].cb = "onNoteHit"
             => /\ ~(h.left = Null /\ h.right = Null)
                /\ ( /\ HandPos(h, NoteAt(callbacks'[k].note).type) = Null
                      /\ ~NoteAt(callbacks'[k].note).isGoldStar )
                   => /\ callbacks'[k].tier = "WRONG_SABER"
                      /\ InRadius(HandPos(h, OtherHand(NoteAt(callbacks'[k].note).type)),
                                  NoteAt(callbacks'[k].note), Item)]_vars

\* a tick with the default saber hit a left note at lane 1 / layer 0 as WRONG_SABER:
\* every seen left hand is within 1.2 of that note, so the left hand was null
C19_WrongSaberWhileOwnHandNull ==
  /\ frameRan
  /\ equippedSaberId = "default"
  /\ \E k \in DOMAIN callbacks :
       /\ callbacks[k].cb = "onNoteHit"
       /\ callbacks[k].tier = "WRONG_SABER"
       /\ NoteAt(callbacks[k].note).type = "left"
       /\ NoteAt(callbacks[k].note).lineIndex = 1
       /\ NoteAt(callbacks[k].note).lineLayer = 0
       /\ \A l \in HandSamples :
            l.pos # Null => InRadius(l.pos, NoteAt(callbacks[k].note), Item)

\* a normal unresolved note inside the hit window, both hands within its hit radius
BothHandsInWindow(n, h) ==
  /\ ~Resolved(n)
  /\ ~n.isGoldStar
  /\ InHitWindow(n, audioTime, NoteSpeed2, Item)
  /\ InRadius(HandPos(h, n.type), n, Item)
  /\ InRadius(HandPos(h, OtherHand(n.type)), n, Item)

\* C20, with the miss plane stated: a tick that finds a normal unresolved note inside
\* the hit window and not beyond the miss plane (currentZ <= MISS_Z), with both the
\* correct and the wrong hand within the hit radius, resolves it as a hit by the
\* correct hand, with the tier of the correct hand's distance and velocity, and
\* never as WRONG_SABER.
C20_CorrectHandFirst ==
  [][PlayingTick =>
       \A h \in HandStates :
         Frame(h) =>
           \A ref \in TickRefs :
             ( /\ BothHandsInWindow(NoteAt(ref), h)
               /\ ~PastMissPlane(NoteAt(ref), audioTime, NoteSpeed2) )
             => /\ HitAs(ref, CorrectTier(NoteAt(ref), h, Item))
                /\ CorrectTier(NoteAt(ref), h, Item) # "WRONG_SABER"
                /\ \A k \in DOMAIN callbacks' :
                     callbacks'[k].note = ref => callbacks'[k].reach = "both"]_vars

\* C20 as stated: every normal unresolved note inside the hit window with both hands
\* within the hit radius is resolved as a hit by the correct hand.
C20_BothHandsInWindowCorrectFirst ==
  [][PlayingTick =>
       \A h \in HandStates :
         Frame(h) =>
           \A ref \in TickRefs :
             BothHandsInWindow(NoteAt(ref), h)
             => /\ HitAs(ref, CorrectTier(NoteAt(ref), h, Item))
                /\ CorrectTier(NoteAt(ref), h, Item) # "WRONG_SABER"]_vars

\* a tick with the default saber resolved a note as PERFECT by its own hand while
\* the other hand was within the hit radius too
C20_PerfectWithBothHandsInRadius ==
  /\ frameRan
  /\ equippedSaberId = "default"
  /\ \E k \in DOMAIN callbacks :
       /\ callbacks[k].cb = "onNoteHit"
       /\ callbacks[k].tier = "PERFECT"
       /\ callbacks[k].reach = "both"
       /\ ~NoteAt(callbacks[k].note).isGoldStar
       /\ NoteAt(callbacks[k].note).hit

(***************************************************************************)
(* Properties of the session as a whole                                    *)
(***************************************************************************)
\* C21: the noteSpeed the tick uses for the spawn lead time and the note positions
\* does not change while the status stays PLAYING: it is the same at every tick of
\* one session, also when the xp of its hits raises the level.
C21_NoteSpeedFixedInSession ==
  [][(gameStatus = "PLAYING" /\ gameStatus' = "PLAYING" /\ sessions' = sessions)
       => activeNoteSpeed2(difficulty', xp') = activeNoteSpeed2(difficulty, xp)]_vars

\* C22: a hit of tier BAD or WRONG_SABER sets combo to max(0, combo - 5) and
\* multiplier to max(1, multiplier / 2), and raises neither of them.
C22_PenaltyHit ==
  [][(Len(callbacks') = 1 /\ callbacks'[1].cb = "onNoteHit" /\ IsPenalty(callbacks'[1].tier))
       => /\ combo' = Max(0, combo - 5)
          /\ 2 * multiplier' = Max(2, multiplier)
          /\ combo' <= combo
          /\ multiplier' <= multiplier]_vars

\* a BAD hit after 31 hits in a row: combo 31 -> 26, multiplier 8 -> 4
C22_PenaltyAtFullMultiplier ==
  /\ Len(callbacks) = 1
  /\ callbacks[1].cb = "onNoteHit"
  /\ callbacks[1].tier = "BAD"
  /\ received = 32
  /\ combo = 26
  /\ multiplier = 4

\* C23: whenever the tick reads a hand whose position is not null, the velocity it
\* reads for that hand was computed by the processResults call that wrote the
\* position, also on the first detection after the hand was lost and when at most
\* 1 ms passed since the call before.
C23_VelocityOfSameDetection ==
  [][PlayingTick =>
       /\ handPositionsRef.left # Null => detection.leftVelocity = detection.left
       /\ handPositionsRef.right # Null => detection.rightVelocity = detection.right]_vars

\* a hand within the hit radius of a note inside the hit window
Reached(n, h) == InHitWindow(n, audioTime, NoteSpeed2, Item) /\ AnyHandInRadius(n, h)

\* the step resolves the note as missed, with its one onNoteMiss callback
MissedOnce(ref) ==
  /\ charts'[ref[1]][ref[2]].missed
  /\ ~charts'[ref[1]][ref[2]].hit
  /\ Cardinality({ k \in DOMAIN callbacks' : callbacks'[k].note = ref }) = 1
  /\ \A k \in DOMAIN callbacks' : callbacks'[k].note = ref => callbacks'[k].cb = "onNoteMiss"
  /\ noteCalls'[ref[1]][ref[2]] = 1
  /\ ~InFlightAfter(ref)

\* note j of the session's chart is in flight and unresolved in a playing session
InFlightUnresolved(j) ==
  /\ gameStatus = "PLAYING"
  /\ activeChart = 1
  /\ j \in DOMAIN ChartNotes(activeChart)
  /\ \E k \in DOMAIN activeNotesRef : activeNotesRef[k] = << 1, j >>
  /\ ~Resolved(charts[1][j])

\* note j is resolved, or the session is no longer playing
ResolvedOrOver(j) ==
  \/ gameStatus # "PLAYING"
  \/ (j \in DOMAIN ChartNotes(activeChart) /\ Resolved(charts[1][j]))

\* C24: in a tick of a playing session, a spawned unresolved note that no hand reaches
\* stays active and unresolved while it is not beyond the miss plane, and is resolved
\* as missed with exactly one onNoteMiss in the tick that finds it beyond the miss
\* plane; every note in flight is eventually resolved unless the session stops playing.
C24_UnreachedNoteMissed ==
  /\ [][PlayingTick =>
          \A h \in HandStates :
            Frame(h) =>
              \A ref \in TickRefs :
                (~Resolved(NoteAt(ref)) /\ ~Reached(NoteAt(ref), h))
                  => IF CurrentZ(NoteAt(ref), audioTime, NoteSpeed2) > MISS_Z * ZS
                       THEN MissedOnce(ref)
                       ELSE StaysInFlight(ref)]_vars
  /\ \A j \in 1..(2 * LastBeat) : InFlightUnresolved(j) ~> ResolvedOrOver(j)

\* a tick missed a note no hand was near, after a tick that had left it in flight
C24_MissedAfterFlight ==
  /\ frameRan
  /\ gameStatus = "PLAYING"
  /\ \E k \in DOMAIN callbacks :
       /\ callbacks[k].cb = "onNoteMiss"
       /\ callbacks[k].reach = "none"
       /\ NoteAt(callbacks[k].note).missed
       /\ noteCalls[callbacks[k].note[1]][callbacks[k].note[2]] = 1
       /\ callbacks[k].note[2] < nextNoteIndexRef

(***************************************************************************)
(* Properties of generateChart's beat loop                                 *)
(***************************************************************************)
\* the notes the iteration just taken pushed
Pushed == SubSeq(chartLoop'.g.notes, Len(chartLoop.g.notes) + 1, Len(chartLoop'.g.notes))

GoldsIn(notes) == { j \in DOMAIN notes : notes[j].isGoldStar }

\* per beat: with the beats past the random skip counted from 1, a beat whose count
\* is a multiple of 50 pushes one gold star at the beat's time and no main-beat
\* note, and no other beat pushes a gold star; a skipped beat pushes nothing
GoldOnCountedBeats ==
  [][(chartLoop.running /\ chartLoop'.i = chartLoop.i + 1)
       => IF chartLoop'.passed = chartLoop.passed THEN Pushed = << >>
          ELSE IF chartLoop'.passed % GoldEvery = 0
            THEN /\ Cardinality(GoldsIn(Pushed)) = 1
                 /\ \A j \in DOMAIN Pushed :
                      /\ Pushed[j].isGoldStar => Pushed[j].time = chartLoop.i * BEAT_TIME
                      /\ Pushed[j].isGoldStar <=> Pushed[j].id[1] = "gold"
                      /\ Pushed[j].id[1] # "note"
          ELSE GoldsIn(Pushed) = {}]_vars

\* the chart returned holds the gold stars of the counted beats and no other
GoldsOfReturnedChart ==
  (chartLoop.running /\ chartLoop.returned)
    => /\ Cardinality(GoldsIn(chartLoop.chart)) = chartLoop.passed \div GoldEvery
       /\ Len(chartLoop.chart) = Len(chartLoop.g.notes)

UltimateInReach(n, h) ==
  /\ isUltimate(Item)
  /\ ~Resolved(n)
  /\ ~n.isGoldStar
  /\ InHitWindow(n, audioTime, NoteSpeed2, Item)
  /\ HitCorrect(n, h, Item)

\* C26, with the miss plane stated: with ultimate_eudin equipped, a tick that finds a
\* normal unresolved note inside the hit window and not beyond the miss plane
\* (currentZ <= MISS_Z), the correct hand within the hit radius, resolves it as a hit
\* of tier PERFECT, whatever the hand's speed (0 included) and direction (the one
\* opposite to the required cut included).
C26_UltimateIsPerfect ==
  [][PlayingTick =>
       \A h \in CutHandStates :
         Frame(h) =>
           \A ref \in TickRefs :
             ( /\ UltimateInReach(NoteAt(ref), h)
               /\ ~PastMissPlane(NoteAt(ref), audioTime, NoteSpeed2) )
             => HitAs(ref, "PERFECT")]_vars

\* C26 as stated: with ultimate_eudin every normal unresolved note inside the hit
\* window with the correct hand within the hit radius is resolved as PERFECT.
C26_UltimateInWindowIsPerfect ==
  [][PlayingTick =>
       \A h \in CutHandStates :
         Frame(h) =>
           \A ref \in TickRefs :
             UltimateInReach(NoteAt(ref), h) => HitAs(ref, "PERFECT")]_vars

\* with ultimate_eudin a tick resolved a left note of cut direction DOWN as PERFECT by
\* the left hand alone, which every hand state of the session has moving up
C26_PerfectAgainstTheCut ==
  /\ frameRan
  /\ equippedSaberId = "ultimate_eudin"
  /\ \E k \in DOMAIN callbacks :
       /\ callbacks[k].cb = "onNoteHit"
       /\ callbacks[k].tier = "PERFECT"
       /\ callbacks[k].reach = "correct"
       /\ NoteAt(callbacks[k].note).type = "left"
       /\ NoteAt(callbacks[k].note).cutDirection = "DOWN"
       /\ ~NoteAt(callbacks[k].note).isGoldStar
  /\ \A h \in CutHandStates : h.left # Null => Along(h.leftVelocity, "DOWN") < 0

(***************************************************************************)
(* Properties of the end of a session                                      *)
(***************************************************************************)
\* C27: a terminal status is not replaced by the other one without a new session
\* start: no step takes the status from VICTORY to GAME_OVER or from GAME_OVER to
\* VICTORY, for every ordering of the frame ticks and the deferred endGame(false).
C27_TerminalStatusKept ==
  [][/\ gameStatus = "VICTORY" => gameStatus' # "GAME_OVER"
     /\ gameStatus = "GAME_OVER" => gameStatus' # "VICTORY"]_vars

\* C28: the status becomes GAME_OVER only in a state where health is 0: no hit raises
\* health between the miss that took it to 0 and the deferred endGame(false), and no
\* endGame(false) left from an earlier session fires after startGame reset health.
C28_GameOverAtZeroHealth ==
  [][(gameStatus # "GAME_OVER" /\ gameStatus' = "GAME_OVER") => (health = 0 /\ health' = 0)]_vars

(***************************************************************************)
(* Properties of combo and multiplier                                      *)
(***************************************************************************)
\* the multiplier is 1, 2, 4 or 8 and at most the step function of the combo
MultiplierWithinStep(c, m) == m \in {1, 2, 4, 8} /\ m <= StreakMultiplier(c)

RECURSIVE TickPoints(_, _)
TickPoints(calls, k) ==
  IF k = 0 THEN 0
  ELSE TickPoints(calls, k - 1)
       + (IF calls[k].cb = "onNoteHit" THEN HitPoints(calls[k].tier, difficulty, Item) ELSE 0)

\* C30: the score a tick adds is, for each of its hits, the tier's scaled points times
\* the multiplier of the render before the tick: one value for all the hits of the
\* tick, whatever the earlier hits of the tick did to combo and multiplier.
C30_ScoreAtCapturedMultiplier ==
  [][PlayingTick => score' = score + multiplier * TickPoints(callbacks', Len(callbacks'))]_vars

\* a tick hit two notes at combo 10: combo 12 and multiplier 2, and all twelve hits
\* scored at multiplier 1
C30_TwoHitsAcrossThreshold ==
  /\ frameRan
  /\ Len(callbacks) = 2
  /\ \A k \in DOMAIN callbacks : callbacks[k].cb = "onNoteHit" /\ callbacks[k].tier = "PERFECT"
  /\ combo = 12
  /\ multiplier = 2
  /\ score = 12 * HitPoints("PERFECT", difficulty, Item)

====
